---- MODULE Spec2Model ----
(***************************************************************************)
(* Trend engine of the Discover module (discover/src/microtrends.py):      *)
(* Microtrends.build_components and the helpers it calls, over the trend   *)
(* tables of the SQLite store.                                             *)
(*                                                                         *)
(* Embeddings are two-dimensional integer vectors <<x, y>> in units of 1/5 *)
(* (a unit embedding has x*x + y*y = 25), so that every cosine comparison  *)
(* of the code is an exact comparison of integers.  Rationals are pairs    *)
(* <<numerator, denominator>>.  A nullable column holds <<>> (NULL) or     *)
(* <<value>>.                                                              *)
(***************************************************************************)
EXTENDS Integers, Sequences, FiniteSets, TLC

\* ------------------------------------------------------------------ bounds
NItems == 4
MaxRuns == 3
MaxLen == 4
MaxSeen == 8
MaxDays == 30
NKeys == 2
batch_size == 1
NTerms == 2
top_n == 1

\* ------------------------------------------------------- configuration
\* config.get('sim_threshold', 0.78): the default, and a user-set 0.6
DefaultSimThreshold == <<39, 50>>
SimThresholds == {DefaultSimThreshold, <<3, 5>>}
\* config.get('merge_threshold', 0.9)
merge_threshold == <<9, 10>>
\* config.get('split_threshold', 0.2)
split_threshold == <<1, 5>>
\* config.get('stale_decay_factor', 0.9)
stale_decay_factor == <<9, 10>>

NULL == <<>>
Some(v) == <<v>>
IsNull(x) == x = <<>>
Val(x) == x[1]

\* ------------------------------------------------------------- vectors
Dot(a, b) == a[1] * b[1] + a[2] * b[2]
VAdd(a, b) == <<a[1] + b[1], a[2] + b[2]>>
VScale(k, a) == <<k * a[1], k * a[2]>>
ZeroVec == <<0, 0>>
\* squared length of a stored (L2-normalised) embedding, in model units
UnitNorm2 == Dot(<<5, 0>>, <<5, 0>>)
UnitVecs == {<<5, 0>>, <<4, 3>>, <<3, 4>>, <<0, 5>>, <<4, -3>>}

RECURSIVE ISqrtBetween(_, _, _)
ISqrtBetween(n, lo, hi) ==
    IF lo >= hi THEN lo
    ELSE LET mid == (lo + hi + 1) \div 2
         IN  IF mid * mid <= n THEN ISqrtBetween(n, mid, hi)
             ELSE ISqrtBetween(n, lo, mid - 1)
\* floor of the square root (of a number below 40000 * 40000)
ISqrt(n) == ISqrtBetween(n, 0, IF n < 40000 THEN n ELSE 40000)

RECURSIVE SeqSum(_)
SeqSum(s) == IF s = <<>> THEN 0 ELSE Head(s) + SeqSum(Tail(s))

RECURSIVE VecSum(_)
VecSum(s) == IF s = <<>> THEN ZeroVec ELSE VAdd(Head(s), VecSum(Tail(s)))

\* ascending sequence of a finite set of integers
RECURSIVE SortedSeq(_)
SortedSeq(S) ==
    IF S = {} THEN <<>>
    ELSE LET m == CHOOSE x \in S : \A y \in S : x <= y
         IN  <<m>> \o SortedSeq(S \ {m})

Range(s) == {s[i] : i \in 1..Len(s)}

Min2(a, b) == IF a <= b THEN a ELSE b

\* ------------------------------------------------- _ClusterScratch
\* float(np.dot(vec, cluster.centroid)) >= threshold, centroid = sum/|sum|
\* (the raw zero vector when the norm is 0)
SimGE(vec, sum_vector, t) ==
    LET d == Dot(vec, sum_vector)
        n == Dot(sum_vector, sum_vector)
    IN  /\ d >= 0
        /\ n > 0
        /\ t[2] * t[2] * d * d >= t[1] * t[1] * UnitNorm2 * n

\* sim > threshold
SimGTThreshold(vec, sum_vector, t) ==
    LET d == Dot(vec, sum_vector)
        n == Dot(sum_vector, sum_vector)
    IN  /\ d >= 0
        /\ n > 0
        /\ t[2] * t[2] * d * d > t[1] * t[1] * UnitNorm2 * n

\* sim to cluster a > sim to cluster b, both similarities being >= threshold > 0
SimGT(vec, sum_a, sum_b) ==
    LET da == Dot(vec, sum_a)
        db_ == Dot(vec, sum_b)
    IN  da * da * Dot(sum_b, sum_b) > db_ * db_ * Dot(sum_a, sum_a)

\* the inner loop of _build_clusters: best_idx after scanning clusters j..
\* (0 is None); best_score is the threshold while best_idx is None
RECURSIVE ScanClusters(_, _, _, _, _)
ScanClusters(vec, clusters, t, j, best_idx) ==
    IF j > Len(clusters) THEN best_idx
    ELSE LET sum_j == clusters[j].sum_vector
             better ==
                 /\ SimGE(vec, sum_j, t)
                 /\ IF best_idx = 0 THEN SimGTThreshold(vec, sum_j, t)
                    ELSE SimGT(vec, sum_j, clusters[best_idx].sum_vector)
         IN  ScanClusters(vec, clusters, t, j + 1, IF better THEN j ELSE best_idx)

BestCluster(vec, clusters, t) == ScanClusters(vec, clusters, t, 1, 0)

\* variant: the item's vector and story id are added, its index is not recorded
add_memberNoIndex(cluster, idx, obj_id, vec) ==
    [sum_vector |-> VAdd(cluster.sum_vector, vec),
     members |-> cluster.members,
     story_ids |-> Append(cluster.story_ids, obj_id)]

\* _ClusterScratch.add_member
add_member(cluster, idx, obj_id, vec) ==
    [sum_vector |-> VAdd(cluster.sum_vector, vec),
     members |-> Append(cluster.members, idx),
     story_ids |-> Append(cluster.story_ids, obj_id)]

\* one iteration of the loop of _build_clusters for items[idx]
AddItem(clusters, idx, obj_id, vec, t) ==
    LET best_idx == BestCluster(vec, clusters, t)
    IN  IF best_idx = 0
        THEN Append(clusters, [sum_vector |-> vec, members |-> <<idx>>,
                               story_ids |-> <<obj_id>>])
        ELSE [clusters EXCEPT ![best_idx] = add_member(@, idx, obj_id, vec)]

\* _build_clusters over items (a sequence of [obj_id, vector]), uncancelled
RECURSIVE BuildFrom(_, _, _, _)
BuildFrom(items, t, idx, clusters) ==
    IF idx > Len(items) THEN clusters
    ELSE BuildFrom(items, t, idx + 1,
                   AddItem(clusters, idx, items[idx].obj_id, items[idx].vector, t))

_build_clusters(items, t) == BuildFrom(items, t, 1, <<>>)

\* ------------------------------------------------------------ the store
\* embeddings.vector of the item obj_id (joined with v_items)
Layout == << <<5, 0>>, <<4, 3>>, <<4, 3>>, <<5, 0>> >>
embedding(obj_id) == Layout[((obj_id - 1) % Len(Layout)) + 1]
AllItems == 1..NItems

VARIABLES
    db,              \* the committed store, as any other connection reads it
    tx,              \* the store as the run's connection sees it (db plus its open transaction)
    label_default,   \* trend_clusters.canonical_label of a row inserted without one
    sim_threshold,   \* config 'sim_threshold'
    cancelled,       \* util._CANCEL_EVENT
    run_id,
    win_lo, win_hi,  \* the items with ts_unix >= cutoff are win_lo..win_hi
    pc,              \* position of build_components
    exc,             \* the exception that ended the invocation
    result,          \* the returned counts
    items,           \* build_components: items, in signal order
    clusters,        \* build_components: clusters of line 568
    k,               \* index of the loop over clusters / trend_ids
    trend_ids,       \* merge and split pass: trend_ids; reconciliation: the active rows of line 631
    j,               \* merge pass: inner index
    merged_trends,   \* merge pass: merged_trends
    cluster_meta,    \* reconciliation: cluster_meta (trend_id -> row read at line 633)
    call,            \* frame of the _merge_themes or _split_theme call in progress, or of the last one
    ensure,          \* frame of _ensure_cluster_members_table: trend_id and the keys still to insert
    arg,             \* arguments of the scoring arithmetic applied on its own
    val,             \* its value
    run_logs,        \* table run_logs: row run_id is the log of that run
    run_stage_logs,  \* table run_stage_logs, in stage_id order
    stage,           \* run_once.run: number of stages entered in the current run
    stories,         \* the source: story id -> its collected text, or NoStory
    edb,             \* committed tables embeddings, embedding_meta and terms
    etx,             \* the same tables as the building connection sees them
    model_name,      \* embed_index.build: model_name
    targets,         \* embed_index.build: targets
    removed_keys,    \* embed_index.build: removed_keys
    encoded,         \* embed_index.build: the targets whose rows are in embedding_rows
    ret,             \* embed_index.build: the returned counts
    calls,           \* model.encode calls of the build in progress
    streak,          \* builds completed with a model, in a row, since the stories last changed (0, 1, 2+)
    before,          \* the committed tables when the build in progress, or the last one, began
    term_scores,     \* the sums of the two SELECTs of _calculate_term_surges: term -> current, previous
    term_surge_snapshots,  \* table term_surge_snapshots: run_id -> its rows, in insertion order
    use_llm,         \* _calculate_term_surges: use_llm of the last call
    surge_calls      \* calls of _calculate_term_surges that returned, for this run_id and these scores (0, 1, 2+)

vars == <<db, tx, label_default, sim_threshold, cancelled, run_id, win_lo, win_hi, pc, exc,
          result, items, clusters, k, trend_ids, j, merged_trends, cluster_meta, call, ensure,
          arg, val, run_logs, run_stage_logs, stage,
          stories, edb, etx, model_name, targets, removed_keys, encoded, ret, calls, streak,
          before, term_scores, term_surge_snapshots, use_llm, surge_calls>>

\* the variables build_components does not touch
scoring == <<arg, val>>
logging == <<run_logs, run_stage_logs, stage>>
tables == <<edb, etx>>
build_locals == <<model_name, targets, removed_keys, encoded, ret, calls>>
embedding_build == <<stories, tables, build_locals, streak, before>>
surging == <<term_scores, term_surge_snapshots, use_llm, surge_calls>>
others == <<scoring, logging, embedding_build, surging>>

ScoringIdle ==
    /\ arg = <<>>
    /\ val = <<>>

\* no run of the pipeline has been logged
LoggingIdle ==
    /\ run_logs = <<>>
    /\ run_stage_logs = <<>>
    /\ stage = 0

\* a story whose collected text is empty is not collected (embed_index.py line 70)
NoStory == <<>>
Keys == 1..NKeys
EmptyTables == [embeddings |-> {}, embedding_meta |-> {}, terms |-> {}]

\* return values of embed_index.build
NoReturn == [kind |-> "running", embeddings |-> 0, terms |-> 0, removed |-> 0]
None == [kind |-> "None", embeddings |-> 0, terms |-> 0, removed |-> 0]
Counts(e, t, r) == [kind |-> "counts", embeddings |-> e, terms |-> t, removed |-> r]

\* no build is in progress
EmbedRest == {"embed_idle", "embed_done", "embed_error", "embed_cancelled"}
EmbedPositions == {"embed_skip", "embed_remove", "embed_remove_meta", "embed_remove_terms",
                   "embed_targets", "embed_check", "embed_batch", "embed_before_write",
                   "upsert_embeddings", "upsert_meta", "delete_terms", "upsert_terms"}

\* no story, no embedding, no build
EmbeddingIdle ==
    /\ stories = [key \in Keys |-> NoStory]
    /\ edb = EmptyTables
    /\ etx = edb
    /\ model_name = "none"
    /\ targets = <<>>
    /\ removed_keys = {}
    /\ encoded = <<>>
    /\ ret = NoReturn
    /\ calls = 0
    /\ streak = 0
    /\ before = edb

SurgeTerms == 1..NTerms
NoScore == <<0, 1>>

\* no term, no surge row
SurgingIdle ==
    /\ term_scores = [t \in SurgeTerms |-> [current |-> NoScore, previous |-> NoScore]]
    /\ term_surge_snapshots = [r \in 1..MaxRuns |-> <<>>]
    /\ use_llm = FALSE
    /\ surge_calls = 0

\* nothing else is in progress
OthersIdle ==
    /\ ScoringIdle
    /\ LoggingIdle
    /\ EmbeddingIdle
    /\ SurgingIdle

config == <<label_default, sim_threshold>>
window == <<win_lo, win_hi>>
locals == <<items, clusters, k, trend_ids, j, merged_trends, cluster_meta>>

EmptyText == <<>>
NoCall == [fn |-> "none"]
NoEnsure == [trend_id |-> 0, pending |-> {}]
Zero == <<0, 1>>

\* the trend tables of a new store: trend_clusters (by trend_id), trend_cluster_members
\* and trend_snapshots (in insertion order)
EmptyStore == [trends |-> <<>>, members |-> {}, snapshots |-> <<>>]

\* the rows of trend_snapshots for (trend_id, run)
SnapshotsOf(s, trend_id, run) ==
    {n \in 1..Len(s.snapshots) :
        s.snapshots[n].trend_id = trend_id /\ s.snapshots[n].run_id = run}

\* a row of trend_clusters as INSERT leaves it when only (canonical_label, centroid, active)
\* are given; origin records which statement inserted the row
TrendRow(label, centroid, origin) ==
    [active |-> 1,
     canonical_label |-> label,
     centroid |-> centroid,
     fingerprint |-> NULL,
     times_seen |-> NULL,
     latest_signal |-> Zero,
     novelty |-> NULL,
     persistence |-> NULL,
     origin |-> origin]

\* INSERT INTO trend_clusters; cur.lastrowid is Len(trends) of the result
InsertTrend(s, row) == [s EXCEPT !.trends = Append(@, row)]
lastrowid(s) == Len(s.trends)

TrendIds(s) == 1..Len(s.trends)

\* SELECT trend_id FROM trend_clusters WHERE active = 1
ActiveIds(s) == SortedSeq({t \in TrendIds(s) : s.trends[t].active = 1})

\* obj_ids of trend_cluster_members WHERE trend_id = t
MembersOf(s, t) == {r.obj_id : r \in {x \in s.members : x.trend_id = t}}

\* INSERT INTO trend_cluster_members ... ON CONFLICT(trend_id, obj_type, obj_id)
\* DO UPDATE SET last_seen = excluded.last_seen
UpsertMember(s, trend_id, obj_id, today) ==
    IF \E r \in s.members : r.trend_id = trend_id /\ r.obj_id = obj_id
    THEN [s EXCEPT !.members =
             {IF r.trend_id = trend_id /\ r.obj_id = obj_id
              THEN [r EXCEPT !.last_seen = today] ELSE r : r \in @}]
    ELSE [s EXCEPT !.members = @ \cup
             {[trend_id |-> trend_id, obj_id |-> obj_id,
               first_seen |-> today, last_seen |-> today]}]

\* variant: the row is deleted instead (DELETE FROM trend_clusters WHERE trend_id = t);
\* the last row stands for it, the ids below Len being kept
DeactivateByDelete(s, t) ==
    [s EXCEPT !.trends = [n \in 1..(Len(@) - 1) |-> IF n = t THEN @[Len(@)] ELSE @[n]]]

\* UPDATE trend_clusters SET active = 0 WHERE trend_id = t
Deactivate(s, t) == [s EXCEPT !.trends[t].active = 0]

\* variant: a connection in autocommit mode, where every statement is committed as
\* it is executed
AfterStatementAutocommit(committed, working) == working

\* the committed store after a statement executed inside a `with conn` block: the
\* connection is in sqlite3's default (deferred) mode, so the statement only joins the
\* open transaction and other connections still read `committed`
AfterStatement(committed, working) == committed

\* datetime.now(timezone.utc).date(): one day per run
Today == run_id

Init ==
    /\ db = EmptyStore
    /\ tx = db
    /\ label_default \in {NULL, Some(EmptyText)}
    /\ sim_threshold \in SimThresholds
    /\ cancelled = FALSE
    /\ run_id = 0
    /\ win_lo = 1
    /\ win_hi = 0
    /\ pc = "idle"
    /\ exc = "none"
    /\ result = NULL
    /\ items = <<>>
    /\ clusters = <<>>
    /\ k = 0
    /\ trend_ids = <<>>
    /\ j = 0
    /\ merged_trends = {}
    /\ cluster_meta = <<>>
    /\ call = NoCall
    /\ ensure = NoEnsure
    /\ OthersIdle

Running == pc \notin {"idle", "done", "error", "cancelled"}

\* raise: the invocation ends; `with conn` has rolled back the open transaction, if any
Raise(kind, e) ==
    /\ pc' = kind
    /\ exc' = e
    /\ tx' = db
    /\ ensure' = NoEnsure

\* build_components is about to test util.is_cancelled() (lines 562, 120, 656), or a
\* stage body or an embedding build is in progress
AtCancellationCheck ==
    \/ pc = "check_cancelled"
    \/ pc = "build_clusters" /\ k <= Len(items)
    \/ pc = "split_cluster"
    \/ pc = "reconcile" /\ k <= Len(trend_ids)
    \/ pc = "stage_body"
    \/ pc \in EmbedPositions

\* the user presses Stop (tk_discover._on_stop_clicked -> util.cancel_current_run).
\* The flag is read at the cancellation checks only, so a Stop pressed between two
\* checks is taken when the run reaches the next one
cancel_current_run ==
    /\ AtCancellationCheck
    /\ ~cancelled
    /\ cancelled' = TRUE
    /\ UNCHANGED <<db, tx, config, others, run_id, window, pc, exc, result, locals, call, ensure>>

\* _load_embeddings: the in-window items, sorted by signal (descending); here the
\* older item has the larger signal
ItemSeq(lo, hi) ==
    [n \in 1..(hi - lo + 1) |-> [obj_id |-> lo + n - 1, vector |-> embedding(lo + n - 1)]]

\* build_components, lines 543-560, with the window the run finds in the store
StartRun(lo, hi) ==
    /\ ~Running
    /\ run_id < MaxRuns
    /\ win_lo <= lo /\ win_hi <= hi /\ lo <= hi + 1
    /\ run_id' = run_id + 1
    /\ win_lo' = lo
    /\ win_hi' = hi
    /\ cancelled' = FALSE
    /\ items' = ItemSeq(lo, hi)
    /\ exc' = "none"
    /\ clusters' = <<>>
    /\ trend_ids' = <<>>
    /\ merged_trends' = {}
    /\ cluster_meta' = <<>>
    /\ j' = 0
    /\ k' = 1
    /\ call' = NoCall
    /\ IF lo > hi
       THEN /\ pc' = "done"
            /\ result' = Some([trends |-> 0, new_trends |-> 0, updated_trends |-> 0])
       ELSE /\ pc' = "check_cancelled"
            /\ result' = NULL
    /\ UNCHANGED <<db, tx, config, others, ensure>>

\* lines 562-563
CheckCancelled ==
    /\ pc = "check_cancelled"
    /\ IF cancelled
       THEN /\ Raise("cancelled", "CancelledError")
            /\ UNCHANGED <<db, config, others, cancelled, run_id, window, result, locals, call>>
       ELSE /\ pc' = "build_clusters"
            /\ UNCHANGED <<db, tx, config, others, cancelled, run_id, window, exc, result, locals,
                           call, ensure>>

\* _build_clusters(items, sim_threshold): one iteration of its loop (k is idx + 1),
\* then lines 568-572
BuildClustersStep ==
    /\ pc = "build_clusters"
    /\ IF k > Len(items)
       THEN /\ pc' = "create"
            /\ k' = 1
            /\ UNCHANGED <<db, tx, config, others, cancelled, run_id, window, exc, result, items,
                           clusters, trend_ids, j, merged_trends, cluster_meta, call, ensure>>
       ELSE IF cancelled
       THEN /\ Raise("cancelled", "CancelledError")
            /\ UNCHANGED <<db, config, others, cancelled, run_id, window, result, locals, call>>
       ELSE /\ clusters' = AddItem(clusters, k, items[k].obj_id, items[k].vector, sim_threshold)
            /\ k' = k + 1
            /\ UNCHANGED <<db, tx, config, others, cancelled, run_id, window, pc, exc, result, items,
                           trend_ids, j, merged_trends, cluster_meta, call, ensure>>

\* variant: a cluster of a single item is given a trend row too
KeepsClusterOfOne(cluster) == Len(cluster.members) >= 1

\* a cluster is given a trend row (lines 573, 398)
KeepsCluster(cluster) == Len(cluster.members) >= 2

\* lines 572-580, one cluster per step: INSERT INTO trend_clusters (active) VALUES (1),
\* the member rows follow in CreateMember; after the last cluster, lines 583-586
CreateTrend ==
    /\ pc = "create"
    /\ IF k > Len(clusters)
       THEN /\ pc' = "merge_loop"
            /\ trend_ids' = ActiveIds(tx)
            /\ merged_trends' = {}
            /\ k' = 1
            /\ j' = 2
            /\ UNCHANGED <<db, tx, ensure>>
       ELSE IF ~KeepsCluster(clusters[k])
       THEN /\ k' = k + 1
            /\ UNCHANGED <<db, tx, pc, trend_ids, merged_trends, j, ensure>>
       ELSE /\ tx' = InsertTrend(tx, TrendRow(label_default, NULL, <<"cluster">>))
            /\ db' = AfterStatement(db, tx')
            /\ ensure' = [trend_id |-> lastrowid(tx'),
                          pending |-> {items[i].obj_id : i \in Range(clusters[k].members)}]
            /\ pc' = "create_members"
            /\ UNCHANGED <<k, trend_ids, merged_trends, j>>
    /\ UNCHANGED <<config, others, cancelled, run_id, window, exc, result, items, clusters,
                   cluster_meta, call>>

\* _ensure_cluster_members_table, one key per step (the keys are a Python set: any
\* order): the upsert, and the commit of the inner `with conn`
EnsureOne(obj_id) ==
    /\ obj_id \in ensure.pending
    /\ tx' = UpsertMember(tx, ensure.trend_id, obj_id, Today)
    /\ db' = tx'
    /\ ensure' = [ensure EXCEPT !.pending = @ \ {obj_id}]

\* line 580, and the end of the `with conn` of line 576 after the last key
CreateMember(obj_id) ==
    /\ pc = "create_members"
    /\ EnsureOne(obj_id)
    /\ IF ensure'.pending = {}
       THEN pc' = "create" /\ k' = k + 1
       ELSE UNCHANGED <<pc, k>>
    /\ UNCHANGED <<config, others, cancelled, run_id, window, exc, result, items, clusters,
                   trend_ids, j, merged_trends, cluster_meta, call>>

\* ------------------------------------------------------------ merge pass
\* a stored centroid is num/den (num in model units, den > 0)
Centroid(num, den) == [num |-> num, den |-> den]

\* _calculate_theme_similarity(conn, t1, t2) > threshold: 0.0 for a NULL centroid
\* or a zero norm, the cosine of the two centroids otherwise
SimilarityGT(s, t1, t2, threshold) ==
    LET c1 == s.trends[t1].centroid
        c2 == s.trends[t2].centroid
    IN  /\ ~IsNull(c1)
        /\ ~IsNull(c2)
        /\ LET a == Val(c1).num
               b == Val(c2).num
               d == Dot(a, b)
           IN  /\ Dot(a, a) > 0
               /\ Dot(b, b) > 0
               /\ d > 0
               /\ threshold[2] * threshold[2] * d * d
                      > threshold[1] * threshold[1] * Dot(a, a) * Dot(b, b)

\* range(len(trend_ids)) of line 587 is evaluated once: the outer loop stops at the
\* length trend_ids had before the pass appended one id per merge
OuterLen == Len(trend_ids) - (Cardinality(merged_trends) \div 2)

\* lines 587-600 (k is i + 1, j is j + 1), one test per step; after the pass, lines 608-612
MergeLoop ==
    /\ pc = "merge_loop"
    /\ IF k > OuterLen
       THEN /\ pc' = "split_loop"
            /\ trend_ids' = ActiveIds(tx)
            /\ k' = 1
            /\ call' = NoCall
            /\ UNCHANGED <<j, merged_trends>>
       ELSE IF k \in merged_trends \/ j > Len(trend_ids)
       THEN /\ k' = k + 1
            /\ j' = k + 2
            /\ call' = NoCall
            /\ UNCHANGED <<pc, trend_ids, merged_trends>>
       ELSE IF j \in merged_trends
                 \/ ~SimilarityGT(tx, trend_ids[k], trend_ids[j], merge_threshold)
       THEN /\ j' = j + 1
            /\ call' = NoCall
            /\ UNCHANGED <<pc, k, trend_ids, merged_trends>>
       ELSE /\ pc' = "merge_insert"
            /\ call' = [fn |-> "merge", status |-> "running",
                        trend_id1 |-> trend_ids[k], trend_id2 |-> trend_ids[j],
                        new_trend_id |-> 0,
                        members1 |-> MembersOf(tx, trend_ids[k]),
                        members2 |-> MembersOf(tx, trend_ids[j])]
            /\ UNCHANGED <<k, j, trend_ids, merged_trends>>
    /\ UNCHANGED <<db, tx, config, others, cancelled, run_id, window, exc, result, items, clusters,
                   cluster_meta, ensure>>

\* (c1 + c2) / 2
MeanCentroid(c1, c2) ==
    Centroid(VAdd(VScale(c2.den, c1.num), VScale(c1.den, c2.num)), 2 * c1.den * c2.den)

\* _merge_themes, lines 440-455: None + " / " raises TypeError before any statement
MergeInsert ==
    /\ pc = "merge_insert"
    /\ LET t1 == tx.trends[call.trend_id1]
           t2 == tx.trends[call.trend_id2]
       IN  IF IsNull(t1.canonical_label) \/ IsNull(t2.canonical_label)
           THEN /\ Raise("error", "TypeError")
                /\ call' = [call EXCEPT !.status = "raised"]
                /\ UNCHANGED db
           ELSE /\ tx' = InsertTrend(tx,
                           TrendRow(Some(Val(t1.canonical_label) \o <<"/">>
                                             \o Val(t2.canonical_label)),
                                    Some(MeanCentroid(Val(t1.centroid), Val(t2.centroid))),
                                    <<"merge", call.trend_id1, call.trend_id2>>))
                /\ db' = AfterStatement(db, tx')
                /\ call' = [call EXCEPT !.new_trend_id = lastrowid(tx')]
                /\ pc' = "merge_repoint1"
                /\ UNCHANGED <<exc, ensure>>
    /\ UNCHANGED <<config, others, cancelled, run_id, window, result, locals>>

\* UPDATE trend_cluster_members SET trend_id = new WHERE trend_id = old violates the
\* unique key (trend_id, obj_type, obj_id) when new already has a row of one of old's items
RepointConflict(s, old, new) == MembersOf(s, old) \cap MembersOf(s, new) /= {}

Repoint(s, old, new) ==
    [s EXCEPT !.members =
        {IF r.trend_id = old THEN [r EXCEPT !.trend_id = new] ELSE r : r \in @}]

\* lines 458-459; sqlite3.IntegrityError leaves the `with conn` block, which rolls back
MergeRepoint(old, next_pc) ==
    IF RepointConflict(tx, old, call.new_trend_id)
    THEN /\ Raise("error", "IntegrityError")
         /\ call' = [call EXCEPT !.status = "raised"]
         /\ UNCHANGED db
    ELSE /\ tx' = Repoint(tx, old, call.new_trend_id)
         /\ db' = AfterStatement(db, tx')
         /\ pc' = next_pc
         /\ UNCHANGED <<exc, call, ensure>>

MergeRepoint1 ==
    /\ pc = "merge_repoint1"
    /\ MergeRepoint(call.trend_id1, "merge_repoint2")
    /\ UNCHANGED <<config, others, cancelled, run_id, window, result, locals>>

MergeRepoint2 ==
    /\ pc = "merge_repoint2"
    /\ MergeRepoint(call.trend_id2, "merge_deactivate1")
    /\ UNCHANGED <<config, others, cancelled, run_id, window, result, locals>>

\* line 462
MergeDeactivate1 ==
    /\ pc = "merge_deactivate1"
    /\ tx' = Deactivate(tx, call.trend_id1)
    /\ db' = AfterStatement(db, tx')
    /\ pc' = "merge_deactivate2"
    /\ UNCHANGED <<config, others, cancelled, run_id, window, exc, result, locals, call, ensure>>

\* line 463
MergeDeactivate2 ==
    /\ pc = "merge_deactivate2"
    /\ tx' = Deactivate(tx, call.trend_id2)
    /\ db' = AfterStatement(db, tx')
    /\ pc' = "merge_commit"
    /\ UNCHANGED <<config, others, cancelled, run_id, window, exc, result, locals, call, ensure>>

\* variant: only the outer position is marked
MarkMergedOuter(merged, a, b) == merged \cup {a}

\* lines 602-603: merged_trends.add(i); merged_trends.add(j)
MarkMerged(merged, a, b) == merged \cup {a, b}

\* the end of the `with conn` of line 447, the return, and lines 602-605
MergeCommit ==
    /\ pc = "merge_commit"
    /\ db' = tx
    /\ call' = [call EXCEPT !.status = "returned"]
    /\ merged_trends' = MarkMerged(merged_trends, k, j)
    /\ trend_ids' = Append(trend_ids, call.new_trend_id)
    /\ k' = k + 1
    /\ j' = k + 2
    /\ pc' = "merge_loop"
    /\ UNCHANGED <<tx, config, others, cancelled, run_id, window, exc, result, items, clusters,
                   cluster_meta, ensure>>

\* ------------------------------------------------------------ split pass
\* _calculate_cluster_variance(conn, trend_id) > threshold: the mean distance of the
\* members' embeddings to their mean, 0.0 below two vectors.  With n vectors v_i of sum
\* s the distance of v_i is |n*v_i - s| / (n * |unit|); square roots are taken to two
\* decimals (in model units)
VarianceGT(s, trend_id, threshold) ==
    LET objs == SortedSeq(MembersOf(s, trend_id))
        n == Len(objs)
        total == VecSum([i \in 1..n |-> embedding(objs[i])])
        dist(i) == LET d == VAdd(VScale(n, embedding(objs[i])), VScale(-1, total))
                   IN  ISqrt(10000 * Dot(d, d))
    IN  /\ n >= 2
        /\ threshold[2] * SeqSum([i \in 1..n |-> dist(i)])
               > threshold[1] * 100 * ISqrt(UnitNorm2) * n * n

\* sim_threshold * 1.1
SplitSimThreshold(t) == <<11 * t[1], 10 * t[2]>>

\* the rows of v_items WHERE obj_id IN (the trend's member obj_ids), in key order
SplitItems(s, trend_id) ==
    LET objs == SortedSeq(MembersOf(s, trend_id))
    IN  [i \in 1..Len(objs) |-> [obj_id |-> objs[i], vector |-> embedding(objs[i])]]

\* lines 613-621 (k is i + 1); after the loop, lines 625-650
SplitLoop ==
    /\ pc = "split_loop"
    /\ IF k > Len(trend_ids)
       THEN /\ pc' = "reconcile"
            /\ trend_ids' = ActiveIds(tx)
            /\ cluster_meta' = tx.trends
            /\ k' = 1
            /\ call' = NoCall
       ELSE IF VarianceGT(tx, trend_ids[k], split_threshold)
       THEN /\ pc' = "split_cluster"
            /\ call' = [fn |-> "split", status |-> "running",
                        trend_id |-> trend_ids[k],
                        members |-> MembersOf(tx, trend_ids[k]),
                        items |-> SplitItems(tx, trend_ids[k]),
                        clusters |-> <<>>, sk |-> 1, new_trend_ids |-> <<>>]
            /\ UNCHANGED <<k, trend_ids, cluster_meta>>
       ELSE /\ k' = k + 1
            /\ call' = NoCall
            /\ UNCHANGED <<pc, trend_ids, cluster_meta>>
    /\ UNCHANGED <<db, tx, config, others, cancelled, run_id, window, exc, result, items, clusters,
                   j, merged_trends, ensure>>

\* _split_theme, line 393: _build_clusters over the trend's items; its loop raises
\* CancelledError at the first item once the run is cancelled
SplitCluster ==
    /\ pc = "split_cluster"
    /\ IF cancelled /\ call.items /= <<>>
       THEN /\ Raise("cancelled", "CancelledError")
            /\ call' = [call EXCEPT !.status = "raised"]
       ELSE /\ call' = [call EXCEPT
                           !.clusters = _build_clusters(call.items,
                                                        SplitSimThreshold(sim_threshold))]
            /\ pc' = "split_sub"
            /\ UNCHANGED <<tx, exc, ensure>>
    /\ UNCHANGED <<db, config, others, cancelled, run_id, window, result, locals>>

\* np.mean(sub_theme_vectors, axis=0)
MeanVector(cluster, its) ==
    Centroid(VecSum([i \in 1..Len(cluster.members) |-> its[cluster.members[i]].vector]),
             Len(cluster.members))

\* _split_theme, lines 397-413, one sub-cluster per step: the INSERT of line 407, the
\* member rows follow in SplitMember
SplitSub ==
    /\ pc = "split_sub"
    /\ IF call.sk > Len(call.clusters)
       THEN /\ pc' = "split_deactivate"
            /\ UNCHANGED <<db, tx, call, ensure>>
       ELSE IF ~KeepsCluster(call.clusters[call.sk])
       THEN /\ call' = [call EXCEPT !.sk = @ + 1]
            /\ UNCHANGED <<db, tx, pc, ensure>>
       ELSE /\ tx' = InsertTrend(tx,
                         TrendRow(label_default,
                                  Some(MeanVector(call.clusters[call.sk], call.items)),
                                  <<"split", call.trend_id>>))
            /\ db' = AfterStatement(db, tx')
            /\ call' = [call EXCEPT !.new_trend_ids = Append(@, lastrowid(tx'))]
            /\ ensure' = [trend_id |-> lastrowid(tx'),
                          pending |-> {call.items[i].obj_id :
                                          i \in Range(call.clusters[call.sk].members)}]
            /\ pc' = "split_members"
    /\ UNCHANGED <<config, others, cancelled, run_id, window, exc, result, locals>>

\* line 413, and the end of the `with conn` of line 406 after the last key
SplitMember(obj_id) ==
    /\ pc = "split_members"
    /\ EnsureOne(obj_id)
    /\ IF ensure'.pending = {}
       THEN pc' = "split_sub" /\ call' = [call EXCEPT !.sk = @ + 1]
       ELSE UNCHANGED <<pc, call>>
    /\ UNCHANGED <<config, others, cancelled, run_id, window, exc, result, locals>>

\* _split_theme, lines 416-419, and lines 622-623
SplitDeactivate ==
    /\ pc = "split_deactivate"
    /\ tx' = Deactivate(tx, call.trend_id)
    /\ db' = tx'
    /\ call' = [call EXCEPT !.status = "returned"]
    /\ k' = k + 1
    /\ pc' = "split_loop"
    /\ UNCHANGED <<config, others, cancelled, run_id, window, exc, result, items, clusters,
                   trend_ids, j, merged_trends, cluster_meta, ensure>>

\* -------------------------------------------------------- reconciliation
\* cluster_items of line 662: the in-window items that are members of the trend
ClusterItems(s, trend_id) ==
    {n \in 1..Len(items) : items[n].obj_id \in MembersOf(s, trend_id)}

\* member_keys of line 666
member_keys(s, trend_id) == {items[n].obj_id : n \in ClusterItems(s, trend_id)}

\* _fingerprint(keywords, story_ids): the first three keywords, sorted, or without
\* keywords the first two story ids, sorted
_fingerprint(keywords, story_ids) ==
    IF keywords /= <<>>
    THEN [of |-> "keywords", key |-> SortedSeq(Range(SubSeq(keywords, 1, Min2(3, Len(keywords)))))]
    ELSE [of |-> "stories", key |-> SortedSeq(Range(SubSeq(story_ids, 1, Min2(2, Len(story_ids)))))]

\* existing_by_fp.get(fingerprint) of lines 637 and 700: the trend_id of the last row
\* that carries the fingerprint (0 is None)
existing_by_fp(rows, fingerprint) ==
    LET hits == {t \in 1..Len(rows) : rows[t].fingerprint = Some(fingerprint)}
    IN  IF hits = {} THEN 0 ELSE CHOOSE t \in hits : \A u \in hits : u <= t

\* the Jaccard floor 0.35 of line 713
min_jaccard == <<7, 20>>

\* lines 704-716: best_trend_id after scanning the candidates c.. of
\* existing_member_sets (the trends with a member row, by trend_id; 0 is None);
\* best_overlap is 0.0 while best_trend_id is None
RECURSIVE JaccardScan(_, _, _, _)
JaccardScan(keys, s, c, best_trend_id) ==
    IF c > Len(s.trends) THEN best_trend_id
    ELSE LET overlap == Cardinality(keys \cap MembersOf(s, c))
             union == Cardinality(keys \cup MembersOf(s, c))
             best_o == IF best_trend_id = 0 THEN 0
                       ELSE Cardinality(keys \cap MembersOf(s, best_trend_id))
             best_u == IF best_trend_id = 0 THEN 1
                       ELSE Cardinality(keys \cup MembersOf(s, best_trend_id))
             better ==
                 /\ overlap > 0
                 /\ overlap * best_u > best_o * union
                 /\ min_jaccard[2] * overlap >= min_jaccard[1] * union
         IN  JaccardScan(keys, s, c + 1, IF better THEN c ELSE best_trend_id)

\* lines 700-718: trend_id of the identity match (0 is None)
IdentityMatch(s, rows, fingerprint, keys) ==
    IF existing_by_fp(rows, fingerprint) /= 0
    THEN existing_by_fp(rows, fingerprint)
    ELSE JaccardScan(keys, s, 1, 0)

\* window_days of build_components (its default, and since_days of run_once)
window_days == 30

\* max(days / 7.0, 1.0)
WindowWeeks(days) == <<IF days > 7 THEN days ELSE 7, 7>>

\* window_weeks = max(window_days / 7.0, 1.0), line 628
window_weeks == WindowWeeks(window_days)

\* a <= b for rationals with positive denominators
RLe(a, b) == a[1] * b[2] <= b[1] * a[2]
RLt(a, b) == a[1] * b[2] < b[1] * a[2]
REq(a, b) == a[1] * b[2] = b[1] * a[2]
RMin(a, b) == IF RLe(a, b) THEN a ELSE b
RMax(a, b) == IF RLe(a, b) THEN b ELSE a

\* lines 794-797: times_seen, novelty and persistence of a matched trend
MatchedTimesSeen(meta) == (IF IsNull(meta.times_seen) THEN 0 ELSE Val(meta.times_seen)) + 1
\* variant: 1.0 / times_seen without the floor of 0.2
MatchedNoveltyNoFloor(times_seen) == <<1, times_seen>>

MatchedNovelty(times_seen) == RMax(<<1, 5>>, <<1, times_seen>>)

\* min(1.0, times_seen / weeks)
PersistenceOf(times_seen, weeks) == RMin(<<1, 1>>, <<times_seen * weeks[2], weeks[1]>>)
MatchedPersistence(times_seen) == PersistenceOf(times_seen, window_weeks)

\* lines 723-725: novelty and persistence of a new trend
NewNovelty == <<1, 1>>
NewPersistence == PersistenceOf(1, window_weeks)

\* lines 652-667 (k is i + 1): _top_terms_for_cluster is handed the item dicts of
\* cluster_items as cluster_members and indexes the list items with them (line 140)
Reconcile ==
    /\ pc = "reconcile"
    /\ IF k > Len(trend_ids)
       THEN /\ pc' = "stale"
            /\ UNCHANGED <<tx, exc, k, ensure>>
       ELSE IF cancelled
       THEN /\ Raise("cancelled", "CancelledError")
            /\ UNCHANGED k
       ELSE IF Cardinality(ClusterItems(tx, trend_ids[k])) < 2
       THEN /\ k' = k + 1
            /\ UNCHANGED <<tx, pc, exc, ensure>>
       ELSE /\ Raise("error", "TypeError:list indices must be integers")
            /\ UNCHANGED k
    /\ UNCHANGED <<db, config, others, cancelled, run_id, window, result, items, clusters,
                   trend_ids, j, merged_trends, cluster_meta, call>>

RECURSIVE Gcd(_, _)
Gcd(a, b) == IF b = 0 THEN a ELSE Gcd(b, a % b)

\* product of two rationals, in lowest terms
RMul(a, b) ==
    LET n == a[1] * b[1]
        d == a[2] * b[2]
        g == Gcd(IF n < 0 THEN -n ELSE n, d)
    IN  <<n \div g, d \div g>>

\* matched_cluster_ids of line 645: nothing adds to it before line 791
matched_cluster_ids == {}

\* stale_ids of line 884
stale_ids == (1..Len(cluster_meta)) \ matched_cluster_ids

\* variant: the decayed signal is the difference, not the product
DecayedSignalBySubtraction(previous_signal, factor) ==
    <<previous_signal[1] * factor[2] - factor[1] * previous_signal[2],
      previous_signal[2] * factor[2]>>

\* decayed_signal of line 890
DecayedSignal(previous_signal, factor) == RMul(previous_signal, factor)

\* variant: the stale row gets the decayed signal and stays active
StaleRowStillActive(row, meta) ==
    [row EXCEPT !.latest_signal = DecayedSignal(meta.latest_signal, stale_decay_factor)]

\* a stale row after the UPDATE of line 895
StaleRow(row, meta) ==
    [row EXCEPT !.active = 0,
                !.latest_signal = DecayedSignal(meta.latest_signal, stale_decay_factor)]

\* lines 884-897: every trend read at line 633 and not matched is deactivated and decayed
StaleDecay ==
    /\ pc = "stale"
    /\ tx' = [tx EXCEPT !.trends =
                  [t \in 1..Len(@) |->
                      IF t \in stale_ids THEN StaleRow(@[t], cluster_meta[t]) ELSE @[t]]]
    /\ db' = tx'
    /\ pc' = "finish"
    /\ UNCHANGED <<config, others, cancelled, run_id, window, exc, result, locals, call, ensure>>

\* lines 899-907: the term surges and the trend history of the run, and the return
Finish ==
    /\ pc = "finish"
    /\ pc' = "done"
    /\ result' = Some([trends |-> 0, new_trends |-> 0, updated_trends |-> 0])
    /\ UNCHANGED <<db, tx, config, others, cancelled, run_id, window, exc, locals, call, ensure>>

Next ==
    \/ \E lo \in 1..(NItems + 1), hi \in 0..NItems : StartRun(lo, hi)
    \/ cancel_current_run
    \/ CheckCancelled
    \/ BuildClustersStep
    \/ CreateTrend
    \/ \E obj_id \in AllItems : CreateMember(obj_id)
    \/ MergeLoop
    \/ MergeInsert
    \/ MergeRepoint1
    \/ MergeRepoint2
    \/ MergeDeactivate1
    \/ MergeDeactivate2
    \/ MergeCommit
    \/ SplitLoop
    \/ SplitCluster
    \/ SplitSub
    \/ \E obj_id \in AllItems : SplitMember(obj_id)
    \/ SplitDeactivate
    \/ Reconcile
    \/ StaleDecay
    \/ Finish

Spec == Init /\ [][Next]_vars

\* ------------------------------------------------------------ properties
\* C1: an invocation of build_components that is not cancelled and whose store
\* operations all succeed runs to completion: it only ever ends in an error when a
\* store operation has failed.
C1_EndsInErrorOnlyOnStoreFailure == pc = "error" => exc = "IntegrityError"

\* a merge call that has executed its INSERT and has ended, by return or by raise
MergeEnded ==
    /\ call.fn = "merge"
    /\ call.status \in {"returned", "raised"}
    /\ call.new_trend_id /= 0

\* C2: after _merge_themes(A, B) has ended, whether or not A and B share a member
\* item, A and B are inactive and have no member rows, and one new trend exists whose
\* members are exactly the union of the members A and B had.
C2_MergePostcondition ==
    MergeEnded =>
        /\ call.new_trend_id <= Len(db.trends)
        /\ db.trends[call.trend_id1].active = 0
        /\ db.trends[call.trend_id2].active = 0
        /\ MembersOf(db, call.trend_id1) = {}
        /\ MembersOf(db, call.trend_id2) = {}
        /\ MembersOf(db, call.new_trend_id) = call.members1 \cup call.members2

SplitReturned == call.fn = "split" /\ call.status = "returned"

\* the items that are members of one of the trends a split call created
SplitNewMembers(s) == UNION {MembersOf(s, call.new_trend_ids[n]) : n \in 1..Len(call.new_trend_ids)}

\* C3: after _split_theme(X) has returned, X is inactive, every trend the split
\* created has at least 2 members, and the members of the created trends together
\* are a subset of the members X had.
C3_SplitPostcondition ==
    SplitReturned =>
        /\ db.trends[call.trend_id].active = 0
        /\ \A n \in 1..Len(call.new_trend_ids) :
               Cardinality(MembersOf(db, call.new_trend_ids[n])) >= 2
        /\ SplitNewMembers(db) \subseteq call.members

\* a split has returned that created a trend and dropped one of X's items
C3_Witness ==
    /\ SplitReturned
    /\ call.new_trend_ids /= <<>>
    /\ SplitNewMembers(db) /= call.members
    /\ db.trends[call.trend_id].active = 0

\* C4: a split is one transaction: no reader of the store sees an active trend created
\* by a split while the split's original is still active, or with only part of its
\* member rows (fewer than the 2 every created trend has).
C4_SplitAtomic ==
    \A n \in TrendIds(db) :
        (db.trends[n].origin[1] = "split" /\ db.trends[n].active = 1) =>
            /\ db.trends[db.trends[n].origin[2]].active = 0
            /\ Cardinality(MembersOf(db, n)) >= 2

\* C5: a merge is one transaction.  A reader of the store that sees the merged trend
\* sees both sources inactive and without member rows; and when the merge has raised,
\* nothing of it is in the store: no merged trend, both sources active with the member
\* rows they had.
C5_MergeAtomic ==
    /\ \A n \in TrendIds(db) :
           db.trends[n].origin[1] = "merge" =>
               /\ db.trends[db.trends[n].origin[2]].active = 0
               /\ db.trends[db.trends[n].origin[3]].active = 0
               /\ MembersOf(db, db.trends[n].origin[2]) = {}
               /\ MembersOf(db, db.trends[n].origin[3]) = {}
    /\ (call.fn = "merge" /\ call.status = "raised") =>
           /\ \A n \in TrendIds(db) :
                  db.trends[n].origin /= <<"merge", call.trend_id1, call.trend_id2>>
           /\ db.trends[call.trend_id1].active = 1
           /\ db.trends[call.trend_id2].active = 1
           /\ MembersOf(db, call.trend_id1) = call.members1
           /\ MembersOf(db, call.trend_id2) = call.members2

\* a merge has returned: its trend is in the store with the members of both sources
C5_Witness ==
    /\ call.fn = "merge"
    /\ call.status = "returned"
    /\ db.trends[call.new_trend_id].origin = <<"merge", call.trend_id1, call.trend_id2>>
    /\ MembersOf(db, call.new_trend_id) = call.members1 \cup call.members2
    /\ call.members1 /= {}
    /\ call.members2 /= {}

\* ---------------------------------------- _build_clusters as a function
\* the item sequences of up to MaxLen unit vectors: item n has obj_id n
ItemSeqs ==
    UNION {{[n \in 1..len |-> [obj_id |-> n, vector |-> vs[n]]] : vs \in [1..len -> UnitVecs]} :
              len \in 0..MaxLen}

\* a run that is about to enter _build_clusters(items, sim_threshold), line 568
InitCluster ==
    /\ db = EmptyStore
    /\ tx = db
    /\ label_default = NULL
    /\ sim_threshold \in SimThresholds
    /\ cancelled = FALSE
    /\ run_id = 1
    /\ items \in ItemSeqs
    /\ win_lo = 1
    /\ win_hi = Len(items)
    /\ pc = "build_clusters"
    /\ exc = "none"
    /\ result = NULL
    /\ clusters = <<>>
    /\ k = 1
    /\ trend_ids = <<>>
    /\ j = 0
    /\ merged_trends = {}
    /\ cluster_meta = <<>>
    /\ call = NoCall
    /\ ensure = NoEnsure
    /\ OthersIdle

NextCluster == BuildClustersStep \/ cancel_current_run

SpecCluster == InitCluster /\ [][NextCluster]_vars

\* the open clusters whose centroid similarity to items[k] is >= T
Qualifying == {c \in 1..Len(clusters) :
                  SimGE(items[k].vector, clusters[c].sum_vector, sim_threshold)}

\* C6: each item the loop of _build_clusters processes joins the open cluster of
\* highest similarity among those with similarity >= T (the earliest-created one on
\* ties), and opens a new singleton cluster only if no open cluster has similarity
\* >= T; an item whose best similarity is exactly T joins.
C6_JoinsBestAtOrAboveThreshold ==
    [][(pc = "build_clusters" /\ k <= Len(items) /\ k' = k + 1) =>
          IF Qualifying = {}
          THEN clusters' = Append(clusters, [sum_vector |-> items[k].vector,
                                             members |-> <<k>>,
                                             story_ids |-> <<items[k].obj_id>>])
          ELSE \E b \in Qualifying :
                  /\ \A c \in Qualifying :
                         ~SimGT(items[k].vector, clusters[c].sum_vector, clusters[b].sum_vector)
                  /\ \A c \in Qualifying :
                         c < b => SimGT(items[k].vector, clusters[b].sum_vector,
                                        clusters[c].sum_vector)
                  /\ clusters' = [clusters EXCEPT
                                     ![b] = add_member(@, k, items[k].obj_id, items[k].vector)]
      ]_vars

\* the positions <<cluster, place>> at which item index i is a member
PlacesOf(i) == {cp \in (1..Len(clusters)) \X (1..Len(items)) :
                   /\ cp[2] <= Len(clusters[cp[1]].members)
                   /\ clusters[cp[1]].members[cp[2]] = i}

ReconcileVisit ==
    /\ pc = "reconcile"
    /\ k <= Len(trend_ids)
    /\ ~cancelled
    /\ ~cancelled'
    /\ Cardinality(ClusterItems(tx, trend_ids[k])) >= 2

\* the keyword lists a cluster may have
KeywordLists == {<<>>, <<1>>}

\* the identity match of the cluster the loop is at, for a keyword list
VisitMatch(keywords) ==
    IdentityMatch(tx, cluster_meta,
                  _fingerprint(keywords, SortedSeq(member_keys(tx, trend_ids[k]))),
                  member_keys(tx, trend_ids[k]))

\* C8: when reconciliation handles a cluster whose identity match (the trend with the
\* cluster's fingerprint, else the trend of highest Jaccard overlap >= 0.35) is a known
\* trend, that trend is active afterwards, also when it was inactive, and no new trend
\* is created.
C8_MatchedTrendIsActive ==
    [][\A keywords \in KeywordLists :
          (ReconcileVisit /\ VisitMatch(keywords) /= 0) =>
              /\ Len(tx'.trends) = Len(tx.trends)
              /\ tx'.trends[VisitMatch(keywords)].active = 1
      ]_vars

\* C9: in a first run over an empty trend store every cluster the reconciliation
\* handles becomes a new trend with times_seen 1, novelty 1.0 and persistence
\* min(1, 1/window_weeks), and the run goes on.
C9_FirstRunClusterIsNew ==
    [][(ReconcileVisit /\ run_id = 1) =>
          /\ pc' = "reconcile"
          /\ Len(tx'.trends) = Len(tx.trends) + 1
          /\ tx'.trends[Len(tx'.trends)].times_seen = Some(1)
          /\ tx'.trends[Len(tx'.trends)].novelty = Some(NewNovelty)
          /\ tx'.trends[Len(tx'.trends)].persistence = Some(NewPersistence)
      ]_vars

\* C10: when reconciliation matches a cluster to a known trend, the trend's row has
\* afterwards times_seen = previous times_seen + 1, novelty = max(0.2, 1/times_seen)
\* and persistence = min(1, times_seen/window_weeks).
C10_MatchedTrendUpdated ==
    [][\A keywords \in KeywordLists :
          (ReconcileVisit /\ VisitMatch(keywords) /= 0) =>
              LET m == VisitMatch(keywords)
                  times_seen == MatchedTimesSeen(cluster_meta[m])
              IN  /\ tx'.trends[m].times_seen = Some(times_seen)
                  /\ ~IsNull(tx'.trends[m].novelty)
                  /\ REq(Val(tx'.trends[m].novelty), MatchedNovelty(times_seen))
                  /\ ~IsNull(tx'.trends[m].persistence)
                  /\ REq(Val(tx'.trends[m].persistence), MatchedPersistence(times_seen))
      ]_vars

\* C11: trend_snapshots holds at most one row per (trend_id, run_id), and a trend that
\* a cluster of the run is matched to has, once the reconciliation loop has handled the
\* cluster, its single snapshot of the run and times_seen one above the value it had
\* when the reconciliation began.
C11_OneSnapshotPerTrendAndRun ==
    [][\A keywords \in KeywordLists :
          (ReconcileVisit /\ VisitMatch(keywords) /= 0) =>
              /\ \A t \in TrendIds(tx'), r \in 1..run_id :
                     Cardinality(SnapshotsOf(tx', t, r)) <= 1
              /\ Cardinality(SnapshotsOf(tx', VisitMatch(keywords), run_id)) = 1
              /\ tx'.trends[VisitMatch(keywords)].times_seen =
                     Some(MatchedTimesSeen(cluster_meta[VisitMatch(keywords)]))
      ]_vars

C13_RowsAreKept ==
    [][/\ Len(db'.trends) >= Len(db.trends)
       /\ Len(db'.snapshots) >= Len(db.snapshots)
       /\ SubSeq(db'.snapshots, 1, Len(db.snapshots)) = db.snapshots
       /\ Len(tx'.trends) >= Len(db.trends)
      ]_vars

\* the store holds a trend deactivated by a merge, one deactivated by a split and
\* their successors
C13_Witness ==
    /\ \E t \in TrendIds(db) : db.trends[t].origin[1] = "merge"
    /\ \E t \in TrendIds(db) : db.trends[t].origin[1] = "split"
    /\ \E t \in TrendIds(db) : db.trends[t].active = 0 /\ db.trends[t].origin[1] = "split"
    /\ \E t \in TrendIds(db) : db.trends[t].active = 0 /\ db.trends[t].origin[1] = "cluster"

\* ------------------------------------- the scoring arithmetic as functions
\* latest_signal values of a trend row, and stale_decay_factor values in (0, 1)
Signals == {<<-3, 2>>, <<0, 1>>, <<1, 2>>, <<4, 1>>}
Factors == {<<1, 2>>, <<9, 10>>}

\* the reconciliation of one trend: the row read at line 633 (times_seen NULL or a
\* count, latest_signal) and the configuration (window_days, stale_decay_factor)
InitScoring ==
    /\ db = EmptyStore
    /\ tx = db
    /\ label_default = NULL
    /\ sim_threshold = DefaultSimThreshold
    /\ cancelled = FALSE
    /\ run_id = 1
    /\ win_lo = 1
    /\ win_hi = 0
    /\ pc = "scoring"
    /\ exc = "none"
    /\ result = NULL
    /\ items = <<>>
    /\ clusters = <<>>
    /\ k = 0
    /\ trend_ids = <<>>
    /\ j = 0
    /\ merged_trends = {}
    /\ cluster_meta = <<>>
    /\ call = NoCall
    /\ ensure = NoEnsure
    /\ arg \in [times_seen : {NULL} \cup {Some(n) : n \in 0..MaxSeen},
                 window_days : 0..MaxDays,
                 latest_signal : Signals,
                 stale_decay_factor : Factors]
    /\ val = <<>>
    /\ LoggingIdle
    /\ EmbeddingIdle
    /\ SurgingIdle

build_vars == <<db, tx, config, cancelled, run_id, window, pc, exc, result, locals, call, ensure>>

\* lines 792-797: the trend is matched
ScoreMatched ==
    /\ pc = "scoring"
    /\ val = <<>>
    /\ val' = [kind |-> "matched",
               times_seen |-> MatchedTimesSeen(arg),
               novelty |-> MatchedNovelty(MatchedTimesSeen(arg)),
               persistence |-> PersistenceOf(MatchedTimesSeen(arg),
                                             WindowWeeks(arg.window_days))]
    /\ UNCHANGED <<build_vars, arg, logging, embedding_build, surging>>

\* lines 723-725: a new trend
ScoreNew ==
    /\ pc = "scoring"
    /\ val = <<>>
    /\ val' = [kind |-> "new",
               times_seen |-> 1,
               novelty |-> NewNovelty,
               persistence |-> PersistenceOf(1, WindowWeeks(arg.window_days))]
    /\ UNCHANGED <<build_vars, arg, logging, embedding_build, surging>>

\* lines 888-890: the trend is stale
ScoreStale ==
    /\ pc = "scoring"
    /\ val = <<>>
    /\ val' = [kind |-> "stale",
               latest_signal |-> DecayedSignal(arg.latest_signal, arg.stale_decay_factor)]
    /\ UNCHANGED <<build_vars, arg, logging, embedding_build, surging>>

NextScoring == ScoreMatched \/ ScoreNew \/ ScoreStale

SpecScoring == InitScoring /\ [][NextScoring]_vars

Scored(kinds) == pc = "scoring" /\ val /= <<>> /\ val.kind \in kinds

\* C14: the novelty reconciliation stores for a created or updated trend lies in
\* [0.2, 1.0] and the persistence in [0.0, 1.0], for every times_seen >= 1 and every
\* window_days.
C14_NoveltyAndPersistenceBounds ==
    Scored({"matched", "new"}) =>
        /\ val.times_seen >= 1
        /\ val.novelty[2] > 0
        /\ val.persistence[2] > 0
        /\ 5 * val.novelty[1] >= val.novelty[2]
        /\ val.novelty[1] <= val.novelty[2]
        /\ val.persistence[1] >= 0
        /\ val.persistence[1] <= val.persistence[2]

\* a trend seen more than five times, over a window of more than a week, is scored at
\* the floor of the novelty and at the cap of the persistence
C14_Witness ==
    /\ Scored({"matched"})
    /\ val.times_seen > 5
    /\ arg.window_days > 7
    /\ 5 * val.novelty[1] = val.novelty[2]
    /\ val.persistence[1] = val.persistence[2]

\* C15 as stated: the latest_signal the stale step stores is strictly smaller than the
\* previous latest_signal, for every signal and every factor in (0, 1).
C15_DecayStrictlyDecreases ==
    Scored({"stale"}) => RLt(val.latest_signal, arg.latest_signal)

\* C15, amended: the stored latest_signal is the previous one times the factor; it is
\* strictly smaller for a positive signal, equal (zero) for a zero signal and
\* strictly larger for a negative one.
C15_DecayIsTheProduct ==
    Scored({"stale"}) =>
        LET old == arg.latest_signal
            new == val.latest_signal
            f == arg.stale_decay_factor
        IN  /\ new[2] > 0
            /\ new[1] * old[2] * f[2] = old[1] * f[1] * new[2]
            /\ old[1] > 0 => RLt(new, old)
            /\ old[1] = 0 => new[1] = 0
            /\ old[1] < 0 => RLt(old, new)

\* a positive signal has been decayed
C15_Witness ==
    /\ Scored({"stale"})
    /\ arg.latest_signal[1] > 0
    /\ RLt(val.latest_signal, arg.latest_signal)

\* ------------------------------------------------ run_once.run and its logs
\* the stages of run_once.run, lines 47-87
Stages == <<"hn_fetch", "embedding_build", "trend_signals", "refresh_views">>

\* the stages that test util.is_cancelled() (hn_fetch.py 69, embed_index.py 149,
\* microtrends.py 562); util.ensure_views does not
HasCancellationCheck(name) == name \in {"hn_fetch", "embedding_build", "trend_signals"}

InitRun ==
    /\ db = EmptyStore
    /\ tx = db
    /\ label_default = NULL
    /\ sim_threshold = DefaultSimThreshold
    /\ cancelled = FALSE
    /\ run_id = 0
    /\ win_lo = 1
    /\ win_hi = 0
    /\ pc = "run_idle"
    /\ exc = "none"
    /\ result = NULL
    /\ items = <<>>
    /\ clusters = <<>>
    /\ k = 0
    /\ trend_ids = <<>>
    /\ j = 0
    /\ merged_trends = {}
    /\ cluster_meta = <<>>
    /\ call = NoCall
    /\ ensure = NoEnsure
    /\ ScoringIdle
    /\ LoggingIdle
    /\ EmbeddingIdle
    /\ SurgingIdle

run_frame == <<db, tx, config, window, result, locals, call, ensure, scoring, embedding_build,
               surging>>

\* stage_logger, except clauses in the order of lines 317 and 343
StageStatusOnAnyException(e) == "error"
StageStatusOn(e) == IF e = "CancelledError" THEN "cancelled" ELSE "error"

\* run_logger, except clauses in the order of lines 242 and 259
RunStatusOn(e) == IF e = "CancelledError" THEN "cancelled" ELSE "error"

\* tk_discover._on_run_clicked (reset_cancel_event) and run_logger up to its yield:
\* log_run inserts the row with status 'running'
RunStart ==
    /\ pc \in {"run_idle", "run_returned", "run_raised"}
    /\ Len(run_logs) < MaxRuns
    /\ cancelled' = FALSE
    /\ run_logs' = Append(run_logs, [status |-> "running", message |-> NULL])
    /\ run_id' = Len(run_logs')
    /\ exc' = "none"
    /\ stage' = 0
    /\ pc' = "next_stage"
    /\ UNCHANGED <<run_frame, run_stage_logs>>

\* stage_logger up to its yield, lines 295-316
StageEnter ==
    /\ pc = "next_stage"
    /\ stage < Len(Stages)
    /\ stage' = stage + 1
    /\ run_stage_logs' = Append(run_stage_logs,
                                [run_id |-> run_id, stage |-> Stages[stage'], status |-> "running"])
    /\ pc' = "stage_body"
    /\ UNCHANGED <<run_frame, cancelled, run_id, exc, run_logs>>

\* stage_id of the stage in progress: the lastrowid of line 305
stage_id == Len(run_stage_logs)

\* the body of the stage returns: stage_logger's else clause, lines 371-386
StageReturns ==
    /\ pc = "stage_body"
    /\ run_stage_logs' = [run_stage_logs EXCEPT ![stage_id].status = "ok"]
    /\ pc' = "next_stage"
    /\ UNCHANGED <<run_frame, cancelled, run_id, exc, run_logs, stage>>

\* the body of the stage raises e: stage_logger's except clauses, lines 317-370
StageRaises(e) ==
    /\ pc = "stage_body"
    /\ e = "CancelledError" => cancelled /\ HasCancellationCheck(Stages[stage])
    /\ run_stage_logs' = [run_stage_logs EXCEPT ![stage_id].status = StageStatusOn(e)]
    /\ exc' = e
    /\ pc' = "stage_raised"
    /\ UNCHANGED <<run_frame, cancelled, run_id, run_logs, stage>>

\* run_logger's except clauses, lines 242-275, and the raise to the caller of run
RunLoggerExcept ==
    /\ pc = "stage_raised"
    /\ run_logs' = [run_logs EXCEPT ![run_id] = [status |-> RunStatusOn(exc), message |-> Some(exc)]]
    /\ pc' = "run_raised"
    /\ UNCHANGED <<run_frame, cancelled, run_id, exc, run_stage_logs, stage>>

\* run_once.run line 89, after the last stage
RunSummary ==
    /\ pc = "next_stage"
    /\ stage = Len(Stages)
    /\ run_logs' = [run_logs EXCEPT ![run_id].message = Some("summary")]
    /\ pc' = "run_else"
    /\ UNCHANGED <<run_frame, cancelled, run_id, exc, run_stage_logs, stage>>

\* run_logger's else clause, lines 276-283, and the return of run
RunLoggerElse ==
    /\ pc = "run_else"
    /\ run_logs' = [run_logs EXCEPT ![run_id].status = "ok"]
    /\ pc' = "run_returned"
    /\ UNCHANGED <<run_frame, cancelled, run_id, exc, run_stage_logs, stage>>

NextRun ==
    \/ RunStart
    \/ cancel_current_run
    \/ StageEnter
    \/ StageReturns
    \/ \E e \in {"CancelledError", "Exception"} : StageRaises(e)
    \/ RunLoggerExcept
    \/ RunSummary
    \/ RunLoggerElse

SpecRun == InitRun /\ [][NextRun]_vars

\* the stage logs of run r, in the order of their insertion
StageLogsOf(r) == SelectSeq(run_stage_logs, LAMBDA row : row.run_id = r)

\* run r has ended: run has returned or raised
RunEnded(r) == r < run_id \/ (r = run_id /\ pc \in {"run_raised", "run_returned"})

\* C16: a run in which a stage raised CancelledError ends with that stage's log and
\* the run log at 'cancelled' and the CancelledError raised to the caller; with any
\* other exception both end at 'error'; the run log ends at 'ok' only when all four
\* stages returned; and no stage is started after one that raised.
C16_CancellationIsNotFailure ==
    /\ \A r \in 1..Len(run_logs) :
          LET logs == StageLogsOf(r)
          IN  /\ \A n \in 1..Len(logs) :
                    /\ n <= Len(Stages)
                    /\ logs[n].stage = Stages[n]
                    /\ n < Len(logs) => logs[n].status = "ok"
              /\ RunEnded(r) =>
                    /\ run_logs[r].status \in {"cancelled", "error", "ok"}
                    /\ run_logs[r].status = "ok" <=>
                          /\ Len(logs) = Len(Stages)
                          /\ \A n \in 1..Len(logs) : logs[n].status = "ok"
                    /\ run_logs[r].status /= "ok" =>
                          /\ Len(logs) > 0
                          /\ logs[Len(logs)].status = run_logs[r].status
    /\ pc = "run_raised" =>
          /\ exc \in {"CancelledError", "Exception"}
          /\ run_logs[run_id].status = (IF exc = "CancelledError" THEN "cancelled" ELSE "error")
    /\ pc = "run_returned" =>
          /\ exc = "none"
          /\ run_logs[run_id].status = "ok"

\* a run that returned, a run that failed and a run cancelled in its third stage
C16_Witness ==
    /\ pc = "run_raised"
    /\ exc = "CancelledError"
    /\ Len(StageLogsOf(run_id)) = 3
    /\ \E r \in 1..Len(run_logs) : run_logs[r].status = "ok"
    /\ \E r \in 1..Len(run_logs) : run_logs[r].status = "error"

\* ------------------------------------------------ cancellation of build_components
\* C17: when build_components ends with CancelledError, no trend or membership row
\* written by that invocation is in the store (a membership row written by the
\* invocation carries its day, Today, as last_seen).
C17_CancelledRunLeavesNoWrites ==
    (pc = "cancelled" /\ exc = "CancelledError") =>
        /\ tx = db
        /\ \A r \in db.members : r.last_seen /= Today

\* ------------------------------------------------ embed_index.build
\* collected texts, as their tokens; "the" is a stop word
Texts == {<<"rust">>, <<"llm">>, <<"the">>}
STOPWORDS == {"the"}
ModelNames == {"none", "all-MiniLM-L6-v2"}

\* hashlib.sha1(text).hexdigest()
_hash_text(text) == <<"sha1", text>>

\* model.encode and _normalize
Encode(text) == <<"vector", text>>

\* the terms of _extract_terms (each with weight freq / total)
_extract_terms(text) == Range(text) \ STOPWORDS

\* _collect_objects: the stories with a non-empty text
_collect_objects == [n \in 1..Len(SortedSeq({key \in Keys : stories[key] /= NoStory})) |->
                        LET key == SortedSeq({key \in Keys : stories[key] /= NoStory})[n]
                        IN  [obj_id |-> key, text |-> stories[key]]]

\* existing_meta.get(key), line 125
ExistingHash(s, key) ==
    IF \E r \in s.embedding_meta : r.obj_id = key
    THEN Some((CHOOSE r \in s.embedding_meta : r.obj_id = key).text_hash)
    ELSE NULL

\* variant: every object is selected
IsTargetAlways(s, obj) == TRUE

\* line 125: the stored hash differs from the hash of the text
IsTarget(s, obj) == ExistingHash(s, obj.obj_id) /= Some(_hash_text(obj.text))

\* lines 118-126
SelectTargets(s, objects) == SelectSeq(objects, LAMBDA obj : IsTarget(s, obj))

\* line 128
RemovedKeys(s, objects) ==
    {r.obj_id : r \in s.embedding_meta} \ {objects[n].obj_id : n \in 1..Len(objects)}

\* DELETE FROM ... WHERE obj_type = ? AND obj_id = ?, for each key
DeleteKeys(rows, keys) == {r \in rows : r.obj_id \notin keys}

\* INSERT ... ON CONFLICT(obj_type, obj_id) DO UPDATE
UpsertRows(rows, new) == {r \in rows : \A n \in new : n.obj_id /= r.obj_id} \cup new

\* INSERT INTO terms ... ON CONFLICT(term, obj_type, obj_id) DO UPDATE SET weight
UpsertTermRows(rows, new) == rows \cup new

embedding_rows == {[obj_id |-> encoded[n].obj_id, vector |-> Encode(encoded[n].text)] :
                      n \in 1..Len(encoded)}
meta_rows == {[obj_id |-> encoded[n].obj_id, text_hash |-> _hash_text(encoded[n].text)] :
                 n \in 1..Len(encoded)}
term_rows == UNION {{[term |-> t, obj_id |-> encoded[n].obj_id] :
                        t \in _extract_terms(encoded[n].text)} : n \in 1..Len(encoded)}

InitEmbed ==
    /\ db = EmptyStore
    /\ tx = db
    /\ label_default = NULL
    /\ sim_threshold = DefaultSimThreshold
    /\ cancelled = FALSE
    /\ run_id = 0
    /\ win_lo = 1
    /\ win_hi = 0
    /\ pc = "embed_idle"
    /\ exc = "none"
    /\ result = NULL
    /\ items = <<>>
    /\ clusters = <<>>
    /\ k = 0
    /\ trend_ids = <<>>
    /\ j = 0
    /\ merged_trends = {}
    /\ cluster_meta = <<>>
    /\ call = NoCall
    /\ ensure = NoEnsure
    /\ ScoringIdle
    /\ LoggingIdle
    /\ EmbeddingIdle
    /\ SurgingIdle

embed_frame == <<db, tx, config, run_id, window, result, locals, call, ensure, scoring, logging,
                 surging>>

\* the stories change between two builds: the frame of the last call of build is
\* gone, and the next run starts with the cancel event reset
BetweenBuilds ==
    /\ pc \in EmbedRest
    /\ pc' = "embed_idle"
    /\ exc' = "none"
    /\ cancelled' = FALSE
    /\ model_name' = "none"
    /\ targets' = <<>>
    /\ removed_keys' = {}
    /\ encoded' = <<>>
    /\ ret' = NoReturn
    /\ calls' = 0
    /\ streak' = 0
    /\ before' = edb
    /\ UNCHANGED <<embed_frame, tables>>

\* hn_fetch.fetch_and_upsert: a story arrives, or its title or comments change
FetchStory(key, text) ==
    /\ BetweenBuilds
    /\ stories[key] /= text
    /\ stories' = [stories EXCEPT ![key] = text]

\* db_manager.purge_discover_database: DELETE FROM stories
purge_discover_database ==
    /\ BetweenBuilds
    /\ \E key \in Keys : stories[key] /= NoStory
    /\ stories' = [key \in Keys |-> NoStory]

\* return of build
Return(value) ==
    /\ pc' = "embed_done"
    /\ ret' = value
    /\ streak' = IF value.kind = "None" THEN 0 ELSE IF streak < 2 THEN streak + 1 ELSE 2

\* build, lines 101-128 (the run has reset the cancel event, tk_discover line 256)
BuildStart(name) ==
    /\ pc \in EmbedRest
    /\ cancelled' = FALSE
    /\ exc' = "none"
    /\ model_name' = name
    /\ before' = edb
    /\ encoded' = <<>>
    /\ calls' = 0
    /\ IF name = "none"
       THEN /\ pc' = "embed_skip"
            /\ targets' = <<>>
            /\ removed_keys' = {}
            /\ UNCHANGED <<ret, streak>>
       ELSE IF _collect_objects = <<>>
       THEN /\ targets' = <<>>
            /\ removed_keys' = {}
            /\ Return(Counts(0, 0, 0))
       ELSE /\ targets' = SelectTargets(etx, _collect_objects)
            /\ removed_keys' = RemovedKeys(etx, _collect_objects)
            /\ pc' = IF removed_keys' /= {} THEN "embed_remove" ELSE "embed_targets"
            /\ UNCHANGED <<ret, streak>>
    /\ UNCHANGED <<embed_frame, stories, tables>>

\* lines 102-108: no model, the three tables are emptied in one transaction
SkipBuild ==
    /\ pc = "embed_skip"
    /\ etx' = EmptyTables
    /\ edb' = etx'
    /\ Return(None)
    /\ UNCHANGED <<embed_frame, cancelled, exc, stories, model_name, targets, removed_keys,
                   encoded, calls, before>>

\* lines 131-135
RemoveEmbeddings ==
    /\ pc = "embed_remove"
    /\ etx' = [etx EXCEPT !.embeddings = DeleteKeys(@, removed_keys)]
    /\ edb' = AfterStatement(edb, etx')
    /\ pc' = "embed_remove_meta"
    /\ UNCHANGED <<embed_frame, cancelled, exc, stories, build_locals, streak, before>>

\* lines 136-139
RemoveMeta ==
    /\ pc = "embed_remove_meta"
    /\ etx' = [etx EXCEPT !.embedding_meta = DeleteKeys(@, removed_keys)]
    /\ edb' = AfterStatement(edb, etx')
    /\ pc' = "embed_remove_terms"
    /\ UNCHANGED <<embed_frame, cancelled, exc, stories, build_locals, streak, before>>

\* lines 140-143, and the commit of the `with conn` of line 131
RemoveTerms ==
    /\ pc = "embed_remove_terms"
    /\ etx' = [etx EXCEPT !.terms = DeleteKeys(@, removed_keys)]
    /\ edb' = etx'
    /\ pc' = "embed_targets"
    /\ UNCHANGED <<embed_frame, cancelled, exc, stories, build_locals, streak, before>>

\* lines 145-147
UpToDate ==
    /\ pc = "embed_targets"
    /\ IF targets = <<>>
       THEN Return(Counts(0, 0, Cardinality(removed_keys)))
       ELSE /\ pc' = "embed_check"
            /\ UNCHANGED <<ret, streak>>
    /\ UNCHANGED <<embed_frame, cancelled, exc, stories, tables, model_name, targets,
                   removed_keys, encoded, calls, before>>

\* variant: one more test of the flag, between the two upserts
CancellationChecksAndBetweenWrites ==
    {"embed_check", "embed_batch", "embed_before_write", "upsert_meta"}

\* the positions at which build tests util.is_cancelled(): lines 149, 162, 198
CancellationChecks == {"embed_check", "embed_batch", "embed_before_write"}

\* raise util.CancelledError, lines 150, 163, 199
RaiseCancelled ==
    /\ pc \in CancellationChecks
    /\ cancelled
    /\ pc' = "embed_cancelled"
    /\ exc' = "CancelledError"
    /\ etx' = edb
    /\ streak' = 0
    /\ UNCHANGED <<embed_frame, cancelled, stories, edb, build_locals, before>>

\* lines 149-159: the model is loaded
LoadModel ==
    /\ pc = "embed_check"
    /\ ~cancelled
    /\ \/ /\ pc' = "embed_batch"
          /\ UNCHANGED <<exc, streak>>
       \/ /\ pc' = "embed_error"
          /\ exc' = "RuntimeError"
          /\ streak' = 0
    /\ UNCHANGED <<embed_frame, cancelled, stories, tables, build_locals, before>>

Min(a, b) == IF a <= b THEN a ELSE b

\* lines 161-196, one batch per step; after the last batch, the loop ends
EncodeBatch ==
    /\ pc = "embed_batch"
    /\ ~(pc \in CancellationChecks /\ cancelled)
    /\ IF Len(encoded) >= Len(targets)
       THEN /\ pc' = "embed_before_write"
            /\ UNCHANGED <<encoded, calls>>
       ELSE /\ encoded' = encoded \o SubSeq(targets, Len(encoded) + 1,
                                             Min(Len(encoded) + batch_size, Len(targets)))
            /\ calls' = calls + 1
            /\ UNCHANGED pc
    /\ UNCHANGED <<embed_frame, cancelled, exc, stories, tables, model_name, targets,
                   removed_keys, ret, streak, before>>

\* line 198, the flag is not set
BeforeWrite ==
    /\ pc = "embed_before_write"
    /\ ~(pc \in CancellationChecks /\ cancelled)
    /\ pc' = "upsert_embeddings"
    /\ UNCHANGED <<embed_frame, cancelled, exc, stories, tables, build_locals, streak, before>>

\* lines 201-211: util.upsert_many commits
UpsertEmbeddings ==
    /\ pc = "upsert_embeddings"
    /\ ~(pc \in CancellationChecks /\ cancelled)
    /\ etx' = [etx EXCEPT !.embeddings = UpsertRows(@, embedding_rows)]
    /\ edb' = etx'
    /\ pc' = "upsert_meta"
    /\ UNCHANGED <<embed_frame, cancelled, exc, stories, build_locals, streak, before>>

\* lines 213-225, and the return of line 249 when there is no term row
UpsertMeta ==
    /\ pc = "upsert_meta"
    /\ ~(pc \in CancellationChecks /\ cancelled)
    /\ etx' = [etx EXCEPT !.embedding_meta = UpsertRows(@, meta_rows)]
    /\ edb' = etx'
    /\ IF term_rows /= {}
       THEN /\ pc' = "delete_terms"
            /\ UNCHANGED <<ret, streak>>
       ELSE Return(Counts(Len(encoded), 0, Cardinality(removed_keys)))
    /\ UNCHANGED <<embed_frame, cancelled, exc, stories, model_name, targets, removed_keys,
                   encoded, calls, before>>

\* lines 226-231
DeleteTerms ==
    /\ pc = "delete_terms"
    /\ etx' = [etx EXCEPT !.terms = DeleteKeys(@, {targets[n].obj_id : n \in 1..Len(targets)})]
    /\ edb' = etx'
    /\ pc' = "upsert_terms"
    /\ UNCHANGED <<embed_frame, cancelled, exc, stories, build_locals, streak, before>>

\* lines 232-253
UpsertTerms ==
    /\ pc = "upsert_terms"
    /\ etx' = [etx EXCEPT !.terms = UpsertTermRows(@, term_rows)]
    /\ edb' = etx'
    /\ Return(Counts(Len(encoded), Cardinality(term_rows), Cardinality(removed_keys)))
    /\ UNCHANGED <<embed_frame, cancelled, exc, stories, model_name, targets, removed_keys,
                   encoded, calls, before>>

NextEmbed ==
    \/ \E key \in Keys, text \in Texts : FetchStory(key, text)
    \/ purge_discover_database
    \/ cancel_current_run
    \/ \E name \in ModelNames : BuildStart(name)
    \/ SkipBuild
    \/ RemoveEmbeddings
    \/ RemoveMeta
    \/ RemoveTerms
    \/ UpToDate
    \/ RaiseCancelled
    \/ LoadModel
    \/ EncodeBatch
    \/ BeforeWrite
    \/ UpsertEmbeddings
    \/ UpsertMeta
    \/ DeleteTerms
    \/ UpsertTerms

SpecEmbed == InitEmbed /\ [][NextEmbed]_vars

\* the rows of one story in the three tables
RowsOf(s, key) ==
    [embeddings |-> {r \in s.embeddings : r.obj_id = key},
     embedding_meta |-> {r \in s.embedding_meta : r.obj_id = key},
     terms |-> {r \in s.terms : r.obj_id = key}]

\* C18: a build with a model that follows a completed build with a model, over the
\* same stories, selects no target, never calls the model, leaves the three tables as
\* they were and returns embeddings = 0, terms = 0, removed = 0.
C18_SecondBuildWritesNothing ==
    (pc = "embed_done" /\ streak = 2) =>
        /\ model_name /= "none"
        /\ targets = <<>>
        /\ removed_keys = {}
        /\ encoded = <<>>
        /\ calls = 0
        /\ edb = before
        /\ etx = before
        /\ ret = Counts(0, 0, 0)

\* the second build over two embedded stories, one of them with terms
C18_Witness ==
    /\ pc = "embed_done"
    /\ streak = 2
    /\ Cardinality(edb.embedding_meta) >= 2
    /\ edb.terms /= {}

\* C19: when build has returned with a model, the three tables hold no row of a
\* story that is no longer in the source.
C19_NoRowOfRemovedStory ==
    (pc = "embed_done" /\ model_name /= "none") =>
        \A key \in Keys :
            stories[key] = NoStory => RowsOf(edb, key) = RowsOf(EmptyTables, key)

\* C20: when build has ended with CancelledError, the rows of every story selected
\* for embedding in that call are as they were when the call began, in the committed
\* tables and in the connection.
C20_CancelledBuildWritesNoTarget ==
    pc = "embed_cancelled" =>
        /\ exc = "CancelledError"
        /\ etx = edb
        /\ \A n \in 1..Len(targets) :
              RowsOf(edb, targets[n].obj_id) = RowsOf(before, targets[n].obj_id)

\* cancelled between two batches: one batch is encoded, another is left, and one of
\* the targets had rows before
C20_Witness ==
    /\ pc = "embed_cancelled"
    /\ exc = "CancelledError"
    /\ 0 < Len(encoded)
    /\ Len(encoded) < Len(targets)
    /\ \E n \in 1..Len(targets) : RowsOf(before, targets[n].obj_id).terms /= {}

\* C30: when build has returned with a model, the term rows of every story embedded
\* in that call are exactly the terms extracted from its current text.
C30_TermsOfEmbeddedStoriesAreCurrent ==
    (pc = "embed_done" /\ model_name /= "none") =>
        \A n \in 1..Len(encoded) :
            RowsOf(edb, encoded[n].obj_id).terms =
                {[term |-> t, obj_id |-> encoded[n].obj_id] : t \in _extract_terms(encoded[n].text)}

\* ------------------------------------------------ _calculate_term_surges
\* SUM(t.weight * (COALESCE(s.score, 0) + 1)) of a term over the stories of a window;
\* NoScore when no story of the window has the term
CurrentScores == {NoScore, <<1, 2>>, <<10, 1>>}
PreviousScores == {NoScore, <<2, 1>>}

\* lines 307-308: the terms with a score that is not 0
current == {t \in SurgeTerms : term_scores[t].current[1] /= 0}
BaselineOf(t) == term_scores[t].previous

\* variant: the baseline is not smoothed
SurgeRatioUnsmoothed(score, baseline) == <<score[1] * baseline[2], score[2] * (baseline[1] + 2 * baseline[2])>>

\* line 320: score / (baseline + 1.0)
SurgeRatio(score, baseline) == <<score[1] * baseline[2], score[2] * (baseline[1] + baseline[2])>>

\* line 321: score - baseline
SurgeDelta(score, baseline) == <<score[1] * baseline[2] - baseline[1] * score[2], score[2] * baseline[2]>>

\* lines 315-322: one entry per term of current with score >= 1.0, in the order of the rows
SurgeEntry(t) ==
    [term |-> t,
     current_score |-> term_scores[t].current,
     baseline_score |-> BaselineOf(t),
     surge_ratio |-> SurgeRatio(term_scores[t].current, BaselineOf(t)),
     surge_delta |-> SurgeDelta(term_scores[t].current, BaselineOf(t))]

surges == {t \in current : RLe(<<1, 1>>, term_scores[t].current)}

\* line 324: list.sort by ratio, descending; the sort is stable, so equal ratios keep
\* the order of the rows (by term)
RECURSIVE SortedSurges(_)
SortedSurges(S) ==
    IF S = {} THEN <<>>
    ELSE LET best == CHOOSE t \in S :
                         \A u \in S \ {t} :
                             \/ RLt(SurgeEntry(u).surge_ratio, SurgeEntry(t).surge_ratio)
                             \/ /\ REq(SurgeEntry(u).surge_ratio, SurgeEntry(t).surge_ratio)
                                /\ t < u
         IN  <<SurgeEntry(best)>> \o SortedSurges(S \ {best})

\* line 325: surges[:20], with top_n for 20
top_surges == SubSeq(SortedSurges(surges), 1, Min(top_n, Cardinality(surges)))
top_terms == {top_surges[n].term : n \in 1..Len(top_surges)}

\* what the filter service does: the import fails, the request fails with
\* LLMClientError, the server cannot be started (LlamaServerError, llm_runtime.py
\* 115-187), or it answers with a list of terms
FilterOutcomes == {"ImportError", "LLMClientError", "LlamaServerError", "answer"}
FilterRaises == {"LlamaServerError"}

\* what the service may answer with: the list it was given, the list without its
\* first term, or a term that is not in the list (0)
Answers == {top_terms, {top_surges[n].term : n \in 2..Len(top_surges)}, {0}}

\* the arguments that make no difference when use_llm is False
NoOutcome == "answer"
NoAnswer == {}

\* _llm_filter_hot_terms, lines 213-248, when it returns
_llm_filter_hot_terms(terms, llm, outcome, answer) ==
    IF ~llm \/ terms = {} THEN terms
    ELSE IF outcome \in {"ImportError", "LLMClientError"} THEN terms
    ELSE answer

InitSurge ==
    /\ db = EmptyStore
    /\ tx = db
    /\ label_default = NULL
    /\ sim_threshold = DefaultSimThreshold
    /\ cancelled = FALSE
    /\ run_id = 1
    /\ win_lo = 1
    /\ win_hi = 0
    /\ pc = "surge_idle"
    /\ exc = "none"
    /\ result = NULL
    /\ items = <<>>
    /\ clusters = <<>>
    /\ k = 0
    /\ trend_ids = <<>>
    /\ j = 0
    /\ merged_trends = {}
    /\ cluster_meta = <<>>
    /\ call = NoCall
    /\ ensure = NoEnsure
    /\ ScoringIdle
    /\ LoggingIdle
    /\ EmbeddingIdle
    /\ term_scores \in [SurgeTerms -> [current : CurrentScores, previous : PreviousScores]]
    /\ term_surge_snapshots = [r \in 1..MaxRuns |-> <<>>]
    /\ use_llm = FALSE
    /\ surge_calls = 0

surge_frame == <<db, tx, config, cancelled, window, result, locals, call, ensure, scoring,
                 logging, embedding_build>>

\* variant: the INSERT without the DELETE
AppendRows(table, r, rows) == [table EXCEPT ![r] = @ \o rows]

\* DELETE FROM term_surge_snapshots WHERE run_id = ?, then the INSERT of the rows
ReplaceRows(table, r, rows) == [table EXCEPT ![r] = rows]

\* _calculate_term_surges(conn, run_id, ...), lines 277-353
CalculateTermSurges(llm, outcome, answer) ==
    /\ pc \in {"surge_idle", "surge_done", "surge_error"}
    /\ use_llm' = llm
    /\ IF current = {}
       THEN /\ term_surge_snapshots' = ReplaceRows(term_surge_snapshots, run_id, <<>>)
            /\ pc' = "surge_done"
            /\ exc' = "none"
            /\ surge_calls' = Min(surge_calls + 1, 2)
       ELSE IF llm /\ top_terms /= {} /\ outcome \in FilterRaises
       THEN /\ pc' = "surge_error"
            /\ exc' = outcome
            /\ UNCHANGED <<term_surge_snapshots, surge_calls>>
       ELSE /\ term_surge_snapshots' =
                   ReplaceRows(term_surge_snapshots, run_id,
                               SelectSeq(top_surges,
                                         LAMBDA e : e.term \in
                                             _llm_filter_hot_terms(top_terms, llm, outcome, answer)))
            /\ pc' = "surge_done"
            /\ exc' = "none"
            /\ surge_calls' = Min(surge_calls + 1, 2)
    /\ UNCHANGED <<surge_frame, run_id, term_scores>>

\* the next run of the pipeline
NextSurgeRun ==
    /\ pc \in {"surge_done", "surge_error"}
    /\ run_id < MaxRuns
    /\ run_id' = run_id + 1
    /\ pc' = "surge_idle"
    /\ exc' = "none"
    /\ surge_calls' = 0
    /\ UNCHANGED <<surge_frame, term_scores, term_surge_snapshots, use_llm>>

\* db_manager.purge_discover_database: no story is left to join the terms with
StoriesPurged ==
    /\ pc \in {"surge_done", "surge_error"}
    /\ current /= {}
    /\ term_scores' = [t \in SurgeTerms |-> [current |-> NoScore, previous |-> NoScore]]
    /\ pc' = "surge_idle"
    /\ exc' = "none"
    /\ surge_calls' = 0
    /\ UNCHANGED <<surge_frame, run_id, term_surge_snapshots, use_llm>>

NextSurge ==
    \/ CalculateTermSurges(FALSE, NoOutcome, NoAnswer)
    \/ \E outcome \in FilterOutcomes \ {"answer"} :
           CalculateTermSurges(TRUE, outcome, NoAnswer)
    \/ \E answer \in Answers : CalculateTermSurges(TRUE, "answer", answer)
    \/ NextSurgeRun
    \/ StoriesPurged

SpecSurge == InitSurge /\ [][NextSurge]_vars

\* the terms stored for run r
StoredTerms(table, r) == {table[r][n].term : n \in 1..Len(table[r])}

\* the terms with current_score >= 1.0
Eligible == {t \in SurgeTerms : term_scores[t].current[1] >= term_scores[t].current[2]}

\* current_score / (baseline_score + 1) of term t is at least that of term u
RatioGE(t, u) ==
    LET c == term_scores[t].current
        b == term_scores[t].previous
        d == term_scores[u].current
        e == term_scores[u].previous
    IN  c[1] * b[2] * d[2] * (e[1] + e[2]) >= d[1] * e[2] * c[2] * (b[1] + b[2])

\* C21: after the stage without the filter, the rows of the run are the min(20, n)
\* terms of highest surge_ratio among the n terms with current_score >= 1.0, once
\* each, with surge_ratio = current / (baseline + 1) and surge_delta = current - baseline.
C21_TopSurgesStored ==
    (pc = "surge_done" /\ ~use_llm) =>
        LET rows == term_surge_snapshots[run_id]
            stored == StoredTerms(term_surge_snapshots, run_id)
        IN  /\ Cardinality(stored) = Len(rows)
            /\ stored \subseteq Eligible
            /\ Len(rows) = Min(top_n, Cardinality(Eligible))
            /\ \A t \in stored, u \in Eligible \ stored : RatioGE(t, u)
            /\ \A n \in 1..Len(rows) :
                  LET c == term_scores[rows[n].term].current
                      b == term_scores[rows[n].term].previous
                      ratio == rows[n].surge_ratio
                      delta == rows[n].surge_delta
                  IN  /\ rows[n].current_score = c
                      /\ rows[n].baseline_score = b
                      /\ ratio[2] > 0 /\ delta[2] > 0
                      /\ ratio[1] * (b[1] + b[2]) * c[2] = c[1] * b[2] * ratio[2]
                      /\ (delta[1] * b[2] + b[1] * delta[2]) * c[2] = c[1] * delta[2] * b[2]

\* more eligible terms than are kept, one of them with a baseline (10 against 2:
\* ratio 10/3, delta 8)
C21_Witness ==
    /\ pc = "surge_done"
    /\ ~use_llm
    /\ Cardinality(Eligible) > top_n
    /\ \E n \in 1..Len(term_surge_snapshots[run_id]) :
          LET row == term_surge_snapshots[run_id][n]
          IN  /\ row.current_score = <<10, 1>>
              /\ row.baseline_score = <<2, 1>>
              /\ REq(row.surge_ratio, <<10, 3>>)
              /\ REq(row.surge_delta, <<8, 1>>)

\* C22: the stored terms are among the unfiltered top terms, and when the filter
\* service fails the stage ends normally with the unfiltered top list stored.
C22_FilterFailsOpen ==
    [][\A outcome \in FilterOutcomes, answer \in Answers :
          CalculateTermSurges(TRUE, outcome, answer) =>
              /\ pc' = "surge_done"
              /\ StoredTerms(term_surge_snapshots', run_id) \subseteq top_terms
              /\ outcome /= "answer" => term_surge_snapshots'[run_id] = top_surges]_vars

\* C23: a call of the stage without the filter changes no row of another run_id and
\* leaves for its run_id one row per stored term, each of the present scores (none
\* when no term is scored); a call that follows a call for the same run_id over the
\* same scores leaves the table as it was.
C23_SurgeStageIdempotent ==
    [][CalculateTermSurges(FALSE, NoOutcome, NoAnswer) =>
              LET rows == term_surge_snapshots'[run_id]
              IN  /\ \A r \in (1..MaxRuns) \ {run_id} :
                        term_surge_snapshots'[r] = term_surge_snapshots[r]
                  /\ (pc = "surge_done" /\ ~use_llm) =>
                        term_surge_snapshots' = term_surge_snapshots
                  /\ Cardinality(StoredTerms(term_surge_snapshots', run_id)) = Len(rows)
                  /\ \A n \in 1..Len(rows) :
                        /\ rows[n].term \in Eligible
                        /\ rows[n].current_score = term_scores[rows[n].term].current
                        /\ rows[n].baseline_score = term_scores[rows[n].term].previous
                  /\ current = {} => rows = <<>>]_vars

\* the stage has run twice without the filter for a run_id that has rows, next to the
\* rows of an earlier run
C23_Witness ==
    /\ pc = "surge_done"
    /\ ~use_llm
    /\ surge_calls = 2
    /\ run_id > 1
    /\ term_surge_snapshots[run_id] /= <<>>
    /\ term_surge_snapshots[1] /= <<>>

\* ---------------------------------------- the merge pass of build_components
\* the trends of store s that a merge created from trend t
MergesOf(s, t) ==
    {n \in TrendIds(s) : s.trends[n].origin[1] = "merge" /\ t \in {s.trends[n].origin[2], s.trends[n].origin[3]}}

\* the positions of trend_ids whose trend is a source of a merge
ConsumedPositions == {n \in 1..Len(trend_ids) : MergesOf(tx, trend_ids[n]) /= {}}

InMergePass == pc \in {"merge_loop", "merge_insert", "merge_repoint1", "merge_repoint2",
                       "merge_deactivate1", "merge_deactivate2", "merge_commit"}

\* C24: within a merge pass every trend, listed at the start or created by a merge of
\* the pass, is a source of at most one merge: the two sources of a merge are two
\* trends that no merge has consumed, and the positions marked in merged_trends are
\* those of the consumed trends; a trend created by a merge is appended to trend_ids.
C24_SourceOfAtMostOneMerge ==
    InMergePass =>
        /\ \A t \in TrendIds(tx) : Cardinality(MergesOf(tx, t)) <= 1
        /\ \A n \in TrendIds(tx) :
               tx.trends[n].origin[1] = "merge" => tx.trends[n].origin[2] /= tx.trends[n].origin[3]
        /\ \A m, n \in 1..Len(trend_ids) : trend_ids[m] = trend_ids[n] => m = n
        /\ pc = "merge_loop" => merged_trends = ConsumedPositions
        /\ pc = "merge_insert" =>
               /\ call.trend_id1 /= call.trend_id2
               /\ MergesOf(tx, call.trend_id1) = {}
               /\ MergesOf(tx, call.trend_id2) = {}
               /\ {k, j} \cap merged_trends = {}
        /\ (pc = "merge_loop" /\ call.fn = "merge" /\ call.status = "returned") =>
               trend_ids[Len(trend_ids)] = call.new_trend_id

\* after a merge of the pass, the next test of the loop is of a trend that no merge
\* has consumed, scanned later, against the trend that the merge created
C24_Witness ==
    /\ pc = "merge_loop"
    /\ merged_trends /= {}
    /\ k <= OuterLen
    /\ k \notin merged_trends
    /\ j > OuterLen
    /\ j <= Len(trend_ids)
    /\ j \notin merged_trends
    /\ tx.trends[trend_ids[j]].origin[1] = "merge"
    /\ tx.trends[trend_ids[j]].active = 1

\* ---------------------------------------- the fingerprint of a cluster as a function
\* cluster_items of line 662: the in-window members of a trend (two at least, line
\* 663), in the order of items, which is by signal (line 96) and so changes over time
Listings ==
    {l \in UNION {[1..n -> AllItems] : n \in 2..NItems} :
        \A a, b \in DOMAIN l : l[a] = l[b] => a = b}

\* term_map of line 614, with at most one term row (of weight 1) per item; 0: no row
TermMaps == [AllItems -> {0} \cup SurgeTerms]

\* counter of lines 137-144: the summed weight of a term over the members
TermWeight(listing, term_map, t) == Cardinality({n \in DOMAIN listing : term_map[listing[n]] = t})

\* the position at which a term enters counter
TermFirstAt(listing, term_map, t) ==
    CHOOSE n \in DOMAIN listing :
        /\ term_map[listing[n]] = t
        /\ \A m \in DOMAIN listing : term_map[listing[m]] = t => n <= m

\* line 149: sorted(counter.items(), key=weight, reverse=True); the sort is stable
RECURSIVE SortedTerms(_, _, _)
SortedTerms(S, listing, term_map) ==
    IF S = {} THEN <<>>
    ELSE LET best == CHOOSE t \in S :
                         \A u \in S \ {t} :
                             \/ TermWeight(listing, term_map, t) > TermWeight(listing, term_map, u)
                             \/ /\ TermWeight(listing, term_map, t) = TermWeight(listing, term_map, u)
                                /\ TermFirstAt(listing, term_map, t) < TermFirstAt(listing, term_map, u)
         IN  <<best>> \o SortedTerms(S \ {best}, listing, term_map)

\* _top_terms_for_cluster called with the positions of the members: keywords, the
\* first top_k = 6 terms by weight ([] when no term resolves)
_top_terms_for_cluster(listing, term_map) ==
    LET counter == {term_map[listing[n]] : n \in DOMAIN listing} \ {0}
        top_terms_ == SortedTerms(counter, listing, term_map)
    IN  SubSeq(top_terms_, 1, Min2(6, Len(top_terms_)))

InitFingerprint ==
    /\ db = EmptyStore
    /\ tx = db
    /\ label_default = NULL
    /\ sim_threshold = DefaultSimThreshold
    /\ cancelled = FALSE
    /\ run_id = 1
    /\ win_lo = 1
    /\ win_hi = 0
    /\ pc = "fingerprint"
    /\ exc = "none"
    /\ result = NULL
    /\ items = <<>>
    /\ clusters = <<>>
    /\ k = 0
    /\ trend_ids = <<>>
    /\ j = 0
    /\ merged_trends = {}
    /\ cluster_meta = <<>>
    /\ call = NoCall
    /\ ensure = NoEnsure
    /\ arg \in [cluster_items : Listings, term_map : TermMaps]
    /\ val = <<>>
    /\ LoggingIdle
    /\ EmbeddingIdle
    /\ SurgingIdle

\* lines 667-668 as they are meant: the keywords of the members, then the fingerprint
Fingerprint ==
    /\ pc = "fingerprint"
    /\ val = <<>>
    /\ val' = [keywords |-> _top_terms_for_cluster(arg.cluster_items, arg.term_map),
               fingerprint |-> _fingerprint(_top_terms_for_cluster(arg.cluster_items, arg.term_map),
                                            arg.cluster_items)]
    /\ UNCHANGED <<build_vars, arg, logging, embedding_build, surging>>

NextFingerprint == Fingerprint

SpecFingerprint == InitFingerprint /\ [][NextFingerprint]_vars

\* C25: with a term of a member the fingerprint is made of keywords; without one it
\* is made of the two lowest member ids, and every listing of the same members has
\* the same fingerprint.
C25_FingerprintOfMemberSet ==
    (pc = "fingerprint" /\ val /= <<>>) =>
        IF \E n \in DOMAIN arg.cluster_items : arg.term_map[arg.cluster_items[n]] /= 0
        THEN /\ val.fingerprint.of = "keywords"
             /\ Range(val.fingerprint.key) \subseteq Range(val.keywords)
        ELSE /\ val.fingerprint.of = "stories"
             /\ val.fingerprint.key = SubSeq(SortedSeq(Range(arg.cluster_items)), 1, 2)
             /\ \A l \in Listings :
                    Range(l) = Range(arg.cluster_items) =>
                        _fingerprint(_top_terms_for_cluster(l, arg.term_map), l) = val.fingerprint

\* ---------------------------------------- clusters and trends of fewer than two items
\* C26: the creation step inserts a trend row, and member rows, only for a cluster
\* of at least 2 members, and the reconciliation loop passes a trend with fewer than
\* 2 member items in the window without any write.
C26_SmallClustersNotProcessed ==
    [][/\ (CreateTrend /\ tx' /= tx) =>
              /\ Len(clusters[k].members) >= 2
              /\ Len(tx'.trends) = Len(tx.trends) + 1
              /\ ensure'.pending = {items[i].obj_id : i \in Range(clusters[k].members)}
       /\ \A obj_id \in AllItems :
              CreateMember(obj_id) =>
                  /\ Len(clusters[k].members) >= 2
                  /\ obj_id \in {items[i].obj_id : i \in Range(clusters[k].members)}
                  /\ ensure.trend_id = Len(tx.trends)
                  /\ tx'.trends = tx.trends
                  /\ tx'.members \ tx.members \subseteq
                         {r \in tx'.members : r.trend_id = ensure.trend_id /\ r.obj_id = obj_id}
       /\ (/\ Reconcile
           /\ k <= Len(trend_ids)
           /\ Cardinality(ClusterItems(tx, trend_ids[k])) < 2
           /\ ~cancelled) =>
              /\ tx' = tx
              /\ db' = db
              /\ pc' = "reconcile"
              /\ k' = k + 1
      ]_vars

\* the run has dropped a cluster of one item, and its reconciliation has just passed
\* a trend, created for a cluster of two items or more, of which fewer than two are in
\* the window; only trends of clusters with two members and more have member rows
C26_Witness ==
    /\ pc = "reconcile"
    /\ k >= 2
    /\ Cardinality(ClusterItems(tx, trend_ids[k - 1])) < 2
    /\ tx.trends[trend_ids[k - 1]].origin = <<"cluster">>
    /\ Cardinality(MembersOf(tx, trend_ids[k - 1])) >= 2
    /\ \E c \in 1..Len(clusters) : Len(clusters[c].members) = 1
    /\ \A t \in TrendIds(tx) :
           tx.trends[t].origin = <<"cluster">> => Cardinality(MembersOf(tx, t)) /= 1
    /\ tx.snapshots = <<>>

\* ---------------------------------------- keyword_discovery._apply_novelty as a function
\* keyword_discovery.py lines 81-84
NOVELTY_THRESHOLD_RATIO == <<5, 4>>
NOVELTY_SCALING == <<9, 20>>
NOVELTY_MAX_MULTIPLIER == <<9, 5>>
NOVELTY_MIN_BASELINE == <<1, 1>>

\* round(x, 2) of a rational x, in hundredths (an exact half goes to the even digit)
Round2(x) ==
    LET q == (100 * x[1]) \div x[2]
        rem == (100 * x[1]) % x[2]
    IN  IF 2 * rem > x[2] THEN q + 1
        ELSE IF 2 * rem = x[2] THEN q + (q % 2)
        ELSE q

\* variant: the multiplier is not capped
NoveltyMultiplierUncapped(ratio) ==
    <<NOVELTY_SCALING[2] * ratio[2] + (ratio[1] - ratio[2]) * NOVELTY_SCALING[1],
      NOVELTY_SCALING[2] * ratio[2]>>

\* line 498: min(NOVELTY_MAX_MULTIPLIER, 1.0 + (ratio - 1.0) * NOVELTY_SCALING)
NoveltyMultiplier(ratio) ==
    RMin(NOVELTY_MAX_MULTIPLIER,
         <<NOVELTY_SCALING[2] * ratio[2] + (ratio[1] - ratio[2]) * NOVELTY_SCALING[1],
           NOVELTY_SCALING[2] * ratio[2]>>)

\* the candidate's score, in hundredths (line 750 rounds it to two decimals), and what
\* get_keyword_baseline may return for avg_mentions (NULL: no baseline row)
CandidateScores == {0, 1, 4, 5, 12, 1200}
Baselines == {NULL, Some(<<0, 1>>), Some(<<1, 2>>), Some(<<1, 1>>), Some(<<2, 1>>), Some(<<4, 1>>)}
Databases == {"missing", "raises", "answers"}

InitNovelty ==
    /\ db = EmptyStore
    /\ tx = db
    /\ label_default = NULL
    /\ sim_threshold = DefaultSimThreshold
    /\ cancelled = FALSE
    /\ run_id = 1
    /\ win_lo = 1
    /\ win_hi = 0
    /\ pc = "novelty"
    /\ exc = "none"
    /\ result = NULL
    /\ items = <<>>
    /\ clusters = <<>>
    /\ k = 0
    /\ trend_ids = <<>>
    /\ j = 0
    /\ merged_trends = {}
    /\ cluster_meta = <<>>
    /\ call = NoCall
    /\ ensure = NoEnsure
    /\ arg \in [database : Databases, term : BOOLEAN, avg_mentions : Baselines,
                 mentions : 0..MaxSeen, score : CandidateScores]
    /\ val = <<>>
    /\ LoggingIdle
    /\ EmbeddingIdle
    /\ SurgingIdle

\* the candidate as a branch of lines 467-497 leaves it
NotBoosted(baseline_mentions) ==
    [novelty_multiplier |-> 100, baseline_mentions |-> baseline_mentions, score |-> arg.score]

\* _apply_novelty for one candidate, lines 460-500
ApplyNovelty ==
    /\ pc = "novelty"
    /\ val = <<>>
    /\ val' =
           IF arg.database /= "answers" \/ ~arg.term
           THEN NotBoosted(0)
           ELSE LET baseline_mentions ==
                        IF IsNull(arg.avg_mentions) THEN <<0, 1>> ELSE Val(arg.avg_mentions)
                    ratio == <<arg.mentions * baseline_mentions[2], baseline_mentions[1]>>
                IN  IF RLt(baseline_mentions, NOVELTY_MIN_BASELINE)
                    THEN NotBoosted(Round2(baseline_mentions))
                    ELSE IF RLe(ratio, NOVELTY_THRESHOLD_RATIO)
                    THEN NotBoosted(Round2(baseline_mentions))
                    ELSE [novelty_multiplier |-> Round2(NoveltyMultiplier(ratio)),
                          baseline_mentions |-> Round2(baseline_mentions),
                          score |-> Round2(RMul(<<arg.score, 100>>, NoveltyMultiplier(ratio)))]
    /\ UNCHANGED <<build_vars, arg, logging, embedding_build, surging>>

NextNovelty == ApplyNovelty

SpecNovelty == InitNovelty /\ [][NextNovelty]_vars

\* the candidate is one the claim says is boosted: the baseline is at least 1.0 and
\* mentions / avg_mentions is above 1.25
Boosted ==
    /\ arg.database = "answers"
    /\ arg.term
    /\ ~IsNull(arg.avg_mentions)
    /\ Val(arg.avg_mentions)[1] >= Val(arg.avg_mentions)[2]
    /\ 4 * arg.mentions * Val(arg.avg_mentions)[2] > 5 * Val(arg.avg_mentions)[1]

cluster == clusters[Len(clusters)]

\* line 698: story_count = len(cluster.members)
story_count == Len(cluster.members)

C29_ActiveIffSnapshotOfRun ==
    pc = "done" =>
        \A t \in TrendIds(db) :
            db.trends[t].active = 1 <=> SnapshotsOf(db, t, run_id) /= {}


====
